---- MODULE Spec2Model ----
(***************************************************************************)
(* Model of the microcap-scout-bot trading and market-data code.           *)
(*                                                                         *)
(* The repository holds two independent programs that keep a TradeStats    *)
(* dictionary: a service built on trade_engine.TradeEngine and the FastAPI *)
(* application main.py (its /trade handler trade_signal).  A process runs  *)
(* one of them; `program` says which, and trade_stats / journal are that   *)
(* process's statistics and PnL journal file.                              *)
(*                                                                         *)
(* A third value of `program`, "data_sources", is a process that uses the   *)
(* market-data module data_sources.py (fetch_fundamentals and              *)
(* get_price_history with their caches and the rate-limit cooldown); the   *)
(* chart cache and throttle of main.py belong to program "main".           *)
(*                                                                         *)
(* Money is counted in whole units (the source uses floats); percentages   *)
(* are counted in hundredths; time is counted in seconds.                  *)
(***************************************************************************)
EXTENDS Integers, Sequences, FiniteSets, TLC

VARIABLES
    program,      \* "trade_engine", "main" or "data_sources": what this process runs
    today,        \* date.today(), as a day number
    engine,       \* the TradeEngine's constructor arguments, kept as attributes
    api,          \* TradeEngine.api is a REST client (TRUE) or None (FALSE);
                  \* for main: both APCA_* environment variables are set
    trade_stats,  \* TradeEngine.trade_stats / main.trade_stats
    journal,      \* the lines of pnl_log_file / PNL_LOG_FILE, oldest first
    submitted,    \* number of orders the brokerage has accepted
    request,      \* the last call: its arguments and (market data) the time it was made
    outcome,      \* what that call returned
    outcome_stats, \* the "stats" of that return value: the dictionary it refers to
                  \* (dictionaries are told apart by their date) and what it held
    calls,        \* the brokerage and provider calls that call made, in order
    pc,           \* interleaved runs: each caller's position in its call
    loc,          \* interleaved runs: each caller's local variables; rankings: the list
                  \* built before it is ranked, and the limit; attempt_trade: the
                  \* keyword arguments of its submit_order call
    serialized,   \* interleaved runs: callers are serialized by a lock
    now,                 \* time.time(), in seconds
    _rate_limited_until, \* data_sources._rate_limited_until
    _FUNDAMENTAL_CACHE,  \* data_sources._FUNDAMENTAL_CACHE: symbol -> {data, timestamp}
    _HISTORY_CACHE,      \* data_sources._HISTORY_CACHE: symbol -> {data, timestamp}
    cache,               \* main.cache: symbol -> {df, timestamp}
    _next_chart_allowed, \* main._next_chart_allowed
    result               \* what the last market-data call returned

\* the market-data state
dataVarsButResult ==
    <<now, _rate_limited_until, _FUNDAMENTAL_CACHE, _HISTORY_CACHE, cache, _next_chart_allowed>>
dataVars == <<now, _rate_limited_until, _FUNDAMENTAL_CACHE, _HISTORY_CACHE, cache,
              _next_chart_allowed, result>>

vars == <<program, today, engine, api, trade_stats, journal, submitted, request, outcome, outcome_stats, calls,
          pc, loc, serialized, dataVars>>

----------------------------------------------------------------------------
\* Configuration, bounds and inputs of the model

\* TradeEngine attributes set by __init__ from its arguments
daily_budget == engine.daily_budget
per_trade_budget == engine.per_trade_budget
max_trades == engine.max_trades
max_positions == engine.max_positions
\* drawdown_limit_percent, in hundredths
drawdown_limit_percent == engine.drawdown_limit_percent

\* the constructor arguments the model is run with; stop_loss_percent and
\* take_profit_percent are in thousandths (0.017 and 0.033, 0.05 and 0.125)
EngineArgs ==
    { [daily_budget |-> 7, per_trade_budget |-> 4, max_trades |-> 2,
       max_positions |-> 1, drawdown_limit_percent |-> 20,
       stop_loss_percent |-> 17, take_profit_percent |-> 33],
      [daily_budget |-> 4, per_trade_budget |-> 3, max_trades |-> 1,
       max_positions |-> 2, drawdown_limit_percent |-> 50,
       stop_loss_percent |-> 50, take_profit_percent |-> 125] }

\* main.py risk parameters
DAILY_BUDGET == 10000
MAX_TRADE_SIZE == 2000
MAX_TRADES_PER_DAY == 3
\* MAX_DRAWDOWN_PERCENT, in hundredths (0.10)
MAX_DRAWDOWN_PERCENT == 10

\* main.py keeps its risk parameters in module constants
MainArgs ==
    [daily_budget |-> DAILY_BUDGET, per_trade_budget |-> MAX_TRADE_SIZE,
     max_trades |-> MAX_TRADES_PER_DAY, max_positions |-> 0,
     drawdown_limit_percent |-> MAX_DRAWDOWN_PERCENT]

\* the clock advances over days 0..MaxDay
MaxDay == 1
\* the journal file is followed up to this many lines
MaxJournal == 2

Symbols == {"XYZ"}
\* prices offered to attempt_trade: non-positive, several shares per trade,
\* one share per trade, above per_trade_budget + 1
Prices == {-1, 0, 2, 3, 6}
\* prices main.trade_signal can be quoted
MainPrices == {0, 700, 2500}
\* (account.equity, account.last_equity) pairs the brokerage reports
Accounts == {<<8, 10>>, <<10, 10>>}
MainAccounts == {<<8000, 10000>>, <<10000, 10000>>}

----------------------------------------------------------------------------
\* Brokerage responses (the brokerage is an external collaborator)

\* api.list_positions(): raises, or returns a list of n positions
NoPositions == [raises |-> FALSE, n |-> 0]
PositionResponses ==
    {[raises |-> TRUE, n |-> 0]} \cup {[raises |-> FALSE, n |-> k] : k \in 0..max_positions}
\* api.submit_order(): raises (order refused) or returns
SubmitResponses == {[raises |-> TRUE], [raises |-> FALSE]}
\* api.get_account(): raises, or returns equity and last_equity
AccountResponses ==
    {[raises |-> TRUE, equity |-> 0, last_equity |-> 0]}
    \cup {[raises |-> FALSE, equity |-> a[1], last_equity |-> a[2]] : a \in Accounts}
MainAccountResponses ==
    {[raises |-> TRUE, equity |-> 0, last_equity |-> 0]}
    \cup {[raises |-> FALSE, equity |-> a[1], last_equity |-> a[2]] : a \in MainAccounts}

----------------------------------------------------------------------------
\* Helpers

InEngine == program = "trade_engine"
InMain == program = "main"

Max(a, b) == IF a >= b THEN a ELSE b

Range(seq) == {seq[i] : i \in DOMAIN seq}

\* seq is an initial segment of other
IsPrefix(seq, other) ==
    /\ Len(seq) <= Len(other)
    /\ \A i \in DOMAIN seq : seq[i] = other[i]

\* Python's a // b for b # 0 (floor division)
FloorDiv(a, b) == IF b > 0 THEN a \div b ELSE (-a) \div (-b)

\* the TradeStats dictionary of a fresh day
FreshStats(d) ==
    [date |-> d, used_capital |-> 0, trades |-> 0, pnl |-> 0, stopped |-> FALSE]

\* return values
NoOutcome == [status |-> "none", error |-> "", qty |-> 0, price |-> 0]
\* mutant: missing credentials are answered with an error, as main.trade_signal does
Simulated_AsError ==
    [status |-> "error", error |-> "Missing Alpaca credentials", qty |-> 0, price |-> 0]
Simulated == [status |-> "simulated", error |-> "", qty |-> 0, price |-> 0]
Rejected(msg) == [status |-> "error", error |-> msg, qty |-> 0, price |-> 0]
Raised(msg) == [status |-> "raised", error |-> msg, qty |-> 0, price |-> 0]
Placed(qty, price) == [status |-> "order placed", error |-> "", qty |-> qty, price |-> price]

ERR_HALTED == "Daily drawdown limit reached"
ERR_COUNT == "Daily trade count exceeded"
ERR_DAILY == "Daily limit reached"
ERR_POSITIONS == "Max concurrent positions reached"
ERR_PER_TRADE == "Trade value exceeds per-trade budget"
\* the rejections of main.trade_signal that the engine does not share
MAIN_ERR_CREDENTIALS == "Missing Alpaca credentials"
MAIN_ERR_PRICE == "Unable to determine price"
MAIN_ERR_PER_TRADE == "Trade size exceeds per-trade limit"
MAIN_ERR_ACTION == "Only buy orders are supported in risk-managed mode"
ERR_SUBMIT == "submit_order failed"

----------------------------------------------------------------------------
\* trade_engine.TradeEngine

\* mutant: the stored date is never compared with the current one
reset_if_new_day_Never(stats) == stats

\* mutant: the statistics are reset on every call
reset_if_new_day_Always(stats) == FreshStats(today)

\* reset_if_new_day: the statistics after the roll-over check
reset_if_new_day(stats) ==
    IF stats.date # today THEN FreshStats(today) ELSE stats

\* mutant: the drawdown test trips at the limit itself
DrawdownExceeded_AtLimit(daily_pnl) ==
    daily_pnl * 100 <= -(daily_budget * drawdown_limit_percent)

\* the drawdown test of _log_pnl
DrawdownExceeded(daily_pnl) ==
    daily_pnl * 100 < -(daily_budget * drawdown_limit_percent)

\* mutant: the journal file is opened for writing, not for appending
_log_pnl_Truncate(stats, file, acct) ==
    IF acct.raises
    THEN [stats |-> stats, file |-> file]
    ELSE LET daily_pnl == acct.equity - acct.last_equity
             s1 == [stats EXCEPT !.pnl = daily_pnl,
                                 !.stopped = IF DrawdownExceeded(daily_pnl)
                                             THEN TRUE ELSE stats.stopped]
         IN  [stats |-> s1, file |-> <<[stats |-> s1]>>]

\* _log_pnl with a client: the statistics and the journal file after it
_log_pnl(stats, file, acct) ==
    IF acct.raises
    THEN [stats |-> stats, file |-> file]
    ELSE LET daily_pnl == acct.equity - acct.last_equity
             s1 == [stats EXCEPT !.pnl = daily_pnl,
                                 !.stopped = IF DrawdownExceeded(daily_pnl)
                                             THEN TRUE ELSE stats.stopped]
         IN  [stats |-> s1, file |-> Append(file, [stats |-> s1])]

\* mutant: the daily-budget comparison is missing
LocalGate_NoBudget(stats, trade_value) ==
    IF stats.stopped THEN ERR_HALTED
    ELSE IF stats.trades >= max_trades THEN ERR_COUNT
    ELSE ""

\* mutant: the trade-count comparison is off by one
LocalGate_CountOffByOne(stats, trade_value) ==
    IF stats.stopped THEN ERR_HALTED
    ELSE IF stats.trades > max_trades THEN ERR_COUNT
    ELSE IF stats.used_capital + trade_value > daily_budget THEN ERR_DAILY
    ELSE ""

\* mutant: the trade count is looked at before the halt
LocalGate_CountFirst(stats, trade_value) ==
    IF stats.trades >= max_trades THEN ERR_COUNT
    ELSE IF stats.stopped THEN ERR_HALTED
    ELSE IF stats.used_capital + trade_value > daily_budget THEN ERR_DAILY
    ELSE ""

\* the gates of _can_trade that read only TradeStats
LocalGate(stats, trade_value) ==
    IF stats.stopped THEN ERR_HALTED
    ELSE IF stats.trades >= max_trades THEN ERR_COUNT
    ELSE IF stats.used_capital + trade_value > daily_budget THEN ERR_DAILY
    ELSE ""

\* the record of an api.list_positions() call; it says when the call raised
\* and when the brokerage reported max_positions open positions or more
ListPositions(pos) ==
    IF pos.raises THEN "list_positions raised"
    ELSE IF pos.n >= max_positions THEN "list_positions at limit"
    ELSE "list_positions"

\* (the gate lets a count equal to max_positions pass)
PositionGate_Above(pos) ==
    IF ~pos.raises /\ pos.n > max_positions THEN ERR_POSITIONS ELSE ""

\* mutant: a query that raises rejects the trade
PositionGate_FailClosed(pos) ==
    IF pos.raises \/ pos.n >= max_positions THEN ERR_POSITIONS ELSE ""

\* the open-position gate of _can_trade
PositionGate(pos) ==
    IF ~pos.raises /\ pos.n >= max_positions THEN ERR_POSITIONS ELSE ""

\* _can_trade with a client: the rejection ("" for None) and the calls made
_can_trade(stats, trade_value, pos) ==
    IF LocalGate(stats, trade_value) # ""
    THEN [error |-> LocalGate(stats, trade_value), calls |-> <<>>]
    ELSE [error |-> PositionGate(pos), calls |-> <<ListPositions(pos)>>]

\* mutant: one share whatever the price
Qty_One(price) == 1

\* qty = max(1, int(per_trade_budget // price)), for price # 0
Qty(price) == Max(1, FloorDiv(per_trade_budget, price))

\* mutant: the notional is not compared with per_trade_budget
PerTradeGate_QtyOnly(price) == Qty(price) <= 0

\* the per-trade gate of attempt_trade
PerTradeGate(price) ==
    Qty(price) <= 0 \/ price * Qty(price) > per_trade_budget

\* mutant: the per-trade budget is charged instead of the notional
RecordTrade_Budget(stats, trade_value) ==
    [stats EXCEPT !.used_capital = stats.used_capital + per_trade_budget,
                  !.trades = stats.trades + 1]

\* the counter update that follows a successful submission
RecordTrade(stats, trade_value) ==
    [stats EXCEPT !.used_capital = stats.used_capital + trade_value,
                  !.trades = stats.trades + 1]

\* mutant: the counters are updated before the order is known to be accepted
AfterSubmit_Eager(stats, trade_value, sub) == RecordTrade(stats, trade_value)

\* the try block around submit_order and the counter update after it
AfterSubmit(stats, trade_value, sub) ==
    IF sub.raises THEN stats ELSE RecordTrade(stats, trade_value)

\* round(x, 2) for x given in thousandths: the nearest hundredth, a tie going
\* to the even one
Round2(thousandths) ==
    LET q == thousandths \div 10
        r == thousandths % 10
    IN  IF r < 5 THEN q
        ELSE IF r > 5 THEN q + 1
        ELSE IF q % 2 = 0 THEN q ELSE q + 1

\* mutant: the take-profit is cut to cents, not rounded
TakeProfit_Truncated(price) ==
    (price * (1000 + engine.take_profit_percent)) \div 10

\* tp = round(price * (1 + self.take_profit), 2), in cents
TakeProfit(price) ==
    Round2(price * (1000 + engine.take_profit_percent))

\* sl = round(price * (1 - self.stop_loss), 2), in cents
StopLoss(price) ==
    Round2(price * (1000 - engine.stop_loss_percent))

\* the keyword arguments of api.submit_order
Order(symbol, price) ==
    [symbol |-> symbol, qty |-> Qty(price), side |-> "buy", type |-> "limit",
     limit_price |-> price, time_in_force |-> "gtc",
     take_profit |-> [limit_price |-> TakeProfit(price)],
     stop_loss |-> [stop_price |-> StopLoss(price)]]

\* a return value without "stats"
NoStats == [ref |-> -1, held |-> FreshStats(0)]

\* the "stats" of a return value: `"stats": self.trade_stats` hands out the
\* dictionary itself, in the rejections of _can_trade and of the per-trade
\* gate and in the accepted outcome; the other return values have no "stats"
StatsOf(stats, out) ==
    IF out.status = "order placed"
       \/ (out.status = "error" /\ out.error # ERR_SUBMIT
                                /\ out.error \notin {MAIN_ERR_CREDENTIALS, MAIN_ERR_PRICE,
                                                      MAIN_ERR_ACTION})
    THEN [ref |-> stats.date, held |-> stats]
    ELSE NoStats

\* what a call leaves behind: the statistics, the return value, the calls it
\* made, the journal file, the orders the brokerage accepted from it
Return(stats, out, made, file, placed) ==
    /\ trade_stats' = stats
    /\ outcome' = out
    /\ outcome_stats' = StatsOf(stats, out)
    /\ calls' = made
    /\ journal' = file
    /\ submitted' = submitted + placed

\* one call of TradeEngine.attempt_trade(symbol, price); the brokerage's
\* responses are drawn where the call asks for them
AttemptTradeCall(symbol, price) ==
    /\ program = "trade_engine"
    /\ Len(journal) < MaxJournal
    /\ UNCHANGED <<dataVars, program, today, engine, api, pc, serialized>>
    /\ request' = [op |-> "attempt_trade", symbol |-> symbol, price |-> price, at |-> 0]
    /\ LET s0 == reset_if_new_day(trade_stats)
       IN  IF ~api THEN Return(s0, Simulated, <<>>, journal, 0)
           ELSE IF price = 0
           THEN Return(s0, Raised("ZeroDivisionError"), <<>>, journal, 0)
           ELSE IF PerTradeGate(price)
           THEN Return(s0, Rejected(ERR_PER_TRADE), <<>>, journal, 0)
           ELSE IF LocalGate(s0, price * Qty(price)) # ""
           THEN Return(s0, Rejected(_can_trade(s0, price * Qty(price), NoPositions).error),
                       _can_trade(s0, price * Qty(price), NoPositions).calls, journal, 0)
           ELSE \E pos \in PositionResponses :
                LET gate == _can_trade(s0, price * Qty(price), pos)
                IN  IF gate.error # ""
                    THEN Return(s0, Rejected(gate.error), gate.calls, journal, 0)
                    ELSE \E sub \in SubmitResponses :
                         IF sub.raises
                         THEN Return(AfterSubmit(s0, price * Qty(price), sub),
                                     Rejected(ERR_SUBMIT),
                                     gate.calls \o <<"submit_order">>, journal, 0)
                         ELSE \E acct \in AccountResponses :
                              LET log == _log_pnl(AfterSubmit(s0, price * Qty(price), sub),
                                                  journal, acct)
                              IN  Return(log.stats, Placed(Qty(price), price),
                                         gate.calls \o <<"submit_order", "get_account">>,
                                         log.file, 1)
    /\ loc' = IF "submit_order" \in Range(calls') THEN <<Order(symbol, price)>> ELSE <<>>

AttemptTrade ==
    \E symbol \in Symbols, price \in Prices : AttemptTradeCall(symbol, price)

\* one call of TradeEngine.reset_if_new_day()
ResetIfNewDay ==
    /\ program = "trade_engine"
    /\ trade_stats.date # today
    /\ trade_stats' = reset_if_new_day(trade_stats)
    /\ UNCHANGED <<dataVars, program, today, engine, api, journal, submitted, request, outcome, outcome_stats, calls,
                   pc, loc, serialized>>

----------------------------------------------------------------------------
\* main.py: the /trade handler and the daily reset


\* api.get_latest_trade(symbol): raises, or returns a trade with a price
LatestTradeResponses ==
    {[raises |-> TRUE, price |-> 0]} \cup {[raises |-> FALSE, price |-> p] : p \in MainPrices}
\* yf.download(symbol, period="1d"): an empty frame, or a last close
DownloadResponses ==
    {[empty |-> TRUE, price |-> 0]} \cup {[empty |-> FALSE, price |-> p] : p \in MainPrices}

\* reset_daily_budget: the statistics after the roll-over check
reset_daily_budget(stats) ==
    IF stats.date # today THEN FreshStats(today) ELSE stats

\* the gates of trade_signal that precede the price lookup
MainEntryGate(stats) ==
    IF stats.stopped THEN ERR_HALTED
    ELSE IF stats.trades >= MAX_TRADES_PER_DAY THEN ERR_COUNT
    ELSE IF DAILY_BUDGET - stats.used_capital < 1 THEN ERR_DAILY
    ELSE IF ~api THEN MAIN_ERR_CREDENTIALS
    ELSE ""

\* qty = max(1, int(MAX_TRADE_SIZE // price)), for price > 0
MainQty(price) == Max(1, FloorDiv(MAX_TRADE_SIZE, price))

\* the gates of trade_signal that follow the price lookup
MainPriceGate(stats, price, action) ==
    IF MainQty(price) = 0 THEN "Price too high for risk limits"
    ELSE IF price * MainQty(price) > MAX_TRADE_SIZE THEN MAIN_ERR_PER_TRADE
    ELSE IF stats.used_capital + price * MainQty(price) > DAILY_BUDGET THEN ERR_DAILY
    ELSE IF action # "buy" THEN MAIN_ERR_ACTION
    ELSE ""

\* the drawdown test of trade_signal
MainDrawdownExceeded(daily_pnl) ==
    daily_pnl * 100 < -(DAILY_BUDGET * MAX_DRAWDOWN_PERCENT)

\* the PnL block of trade_signal: the statistics and the journal file after it
MainLogPnl(stats, file, symbol, qty, price, acct) ==
    IF acct.raises
    THEN [stats |-> stats, file |-> file]
    ELSE LET daily_pnl == acct.equity - acct.last_equity
             s1 == [stats EXCEPT !.pnl = daily_pnl,
                                 !.stopped = IF MainDrawdownExceeded(daily_pnl)
                                             THEN TRUE ELSE stats.stopped]
         IN  [stats |-> s1,
              file |-> Append(file, [symbol |-> symbol, qty |-> qty, price |-> price,
                                     stats |-> s1])]

\* the try block around submit_order and the counter update after it
MainAfterSubmit(stats, trade_value, sub) ==
    IF sub.raises THEN stats ELSE RecordTrade(stats, trade_value)

\* trade_signal from the point where the price is known (None: known = FALSE)
TradeSignalPriced(s0, symbol, action, known, price, made) ==
    IF ~known \/ price <= 0 THEN Return(s0, Rejected(MAIN_ERR_PRICE), made, journal, 0)
    ELSE IF MainPriceGate(s0, price, action) # ""
    THEN Return(s0, Rejected(MainPriceGate(s0, price, action)), made, journal, 0)
    ELSE \E sub \in SubmitResponses :
         IF sub.raises
         THEN Return(MainAfterSubmit(s0, price * MainQty(price), sub),
                     Rejected(ERR_SUBMIT), made \o <<"submit_order">>, journal, 0)
         ELSE \E acct \in MainAccountResponses :
              LET log == MainLogPnl(MainAfterSubmit(s0, price * MainQty(price), sub), journal,
                                    symbol, MainQty(price), price, acct)
              IN  Return(log.stats, Placed(MainQty(price), price),
                         made \o <<"submit_order", "get_account">>, log.file, 1)

\* one request GET /trade?symbol=..&action=..
TradeSignalCall(symbol, action) ==
    /\ program = "main"
    /\ Len(journal) < MaxJournal
    /\ UNCHANGED <<dataVars, program, today, engine, api, pc, loc, serialized>>
    /\ request' = [op |-> "trade_signal", symbol |-> symbol, price |-> 0, at |-> 0]
    /\ LET s0 == reset_daily_budget(trade_stats)
       IN  IF MainEntryGate(s0) # ""
           THEN Return(s0, Rejected(MainEntryGate(s0)), <<>>, journal, 0)
           ELSE \E latest \in LatestTradeResponses :
                IF ~latest.raises
                THEN TradeSignalPriced(s0, symbol, action, TRUE, latest.price,
                                       <<"get_latest_trade">>)
                ELSE \E df \in DownloadResponses :
                     TradeSignalPriced(s0, symbol, action, ~df.empty, df.price,
                                       <<"get_latest_trade", "yf.download">>)

TradeSignal ==
    \E symbol \in Symbols, action \in {"buy", "sell"} : TradeSignalCall(symbol, action)

\* reset_daily_budget() called outside trade_signal: reset_job, /products.json, /scan
ResetDailyBudget ==
    /\ program = "main"
    /\ trade_stats.date # today
    /\ trade_stats' = reset_daily_budget(trade_stats)
    /\ UNCHANGED <<dataVars, program, today, engine, api, journal, submitted, request, outcome, outcome_stats, calls,
                   pc, loc, serialized>>

\* the calendar day changes
Midnight ==
    /\ today < MaxDay
    /\ today' = today + 1
    /\ UNCHANGED <<dataVars, program, engine, api, trade_stats, journal, submitted, request, outcome, outcome_stats, calls,
                   pc, loc, serialized>>

----------------------------------------------------------------------------
\* data_sources.py: caches, rate-limit cooldown, provider fallback.
\* The clock counts seconds and moves in whole minutes; a sleep shorter than a
\* minute (tenacity's waits, the retry delays, the chart throttle) takes no
\* model time and is recorded among the calls.

\* _CACHE_TTL_SECONDS = 300
_CACHE_TTL_SECONDS == 300
\* CHART_COOLDOWN_SECONDS = 300
CHART_COOLDOWN_SECONDS == 300
\* the clock is followed up to this second
MaxNow == 300

DataSymbols == {"AAA"}
\* prices the providers quote (0: a quote without a usable price)
QuotePrices == {0, 5}

\* a quote or a price frame: the symbol, the (last) price, where it came from
Payload(symbol, price, source) == [symbol |-> symbol, price |-> price, source |-> source]
NoData == Payload("", 0, "")

\* return values of the market-data calls
RetData(d) == [kind |-> "data", data |-> d]
RetNone == [kind |-> "None", data |-> NoData]
RetRaised == [kind |-> "raised", data |-> NoData]

\* the state before any market-data call
DataIdle ==
    /\ now = 0
    /\ _rate_limited_until = 0
    /\ _FUNDAMENTAL_CACHE = <<>>
    /\ _HISTORY_CACHE = <<>>
    /\ cache = <<>>
    /\ _next_chart_allowed = 0
    /\ result = [kind |-> "none", data |-> NoData]

\* dict[key] = value
Put(dict, key, value) ==
    [k \in DOMAIN dict \cup {key} |-> IF k = key THEN value ELSE dict[k]]

\* a cache entry
Entry(d, t) == [data |-> d, timestamp |-> t]

\* (a cache test that is given up while the cooldown runs)
Fresh_UnlessCoolingDown(dict, symbol, st) ==
    /\ symbol \in DOMAIN dict
    /\ st.now - dict[symbol].timestamp < _CACHE_TTL_SECONDS
    /\ ~(st.now < st.until)

\* the cache test of fetch_fundamentals and get_price_history:
\* cached and time.time() - cached["timestamp"] < _CACHE_TTL_SECONDS
Fresh(dict, symbol, st) ==
    symbol \in DOMAIN dict /\ st.now - dict[symbol].timestamp < _CACHE_TTL_SECONDS

\* The functions below are relations: each gives the set of ways a call can
\* end, one for every combination of provider responses.  A call's state is
\* st = [now, until, fund, hist, made]: the clock, _rate_limited_until, the
\* two caches, the provider calls and sleeps made so far.

DataState ==
    [now |-> now, until |-> _rate_limited_until, fund |-> _FUNDAMENTAL_CACHE,
     hist |-> _HISTORY_CACHE, made |-> <<>>]

Did(st, what) == [st EXCEPT !.made = Append(st.made, what)]

\* (the cooldown is never seen)
_is_rate_limited_Never(st) == FALSE

\* _is_rate_limited
_is_rate_limited(st) == st.now < st.until

\* a request to the primary provider (Yahoo through yfinance); the record of it
\* says whether _rate_limited_until was in the future when it was sent
Primary(st, what) ==
    Did(st, IF st.now < st.until THEN what \o " during cooldown" ELSE what)

\* mutant: the multiplier is added without the base window
_mark_rate_limited_Unscaled(st, multiplier) ==
    [st EXCEPT !.until = st.now + multiplier]

\* _mark_rate_limited(multiplier)
_mark_rate_limited(st, multiplier) ==
    [st EXCEPT !.until = st.now + CHART_COOLDOWN_SECONDS * multiplier]

\* what yf.Ticker(symbol).fast_info / get_info() can give one attempt of
\* _fetch_yahoo: complete fundamentals; complete fundamentals although the
\* detail lookup was answered 429; incomplete fundamentals; HTTP 429; another
\* failure
YahooResponses ==
    {[kind |-> k, price |-> p] : k \in {"quote", "quote_after_429"}, p \in QuotePrices}
    \cup {[kind |-> k, price |-> 0] : k \in {"incomplete", "429", "error"}}

\* one attempt of _fetch_yahoo (the decorated function's body): the state
\* after it and the quote, or DataFetchError (ok = FALSE)
YahooAttempts(symbol, st) ==
    IF _is_rate_limited(st)
    THEN {[st |-> st, ok |-> FALSE, data |-> NoData]}
    ELSE {LET asked == Primary(st, "yf.Ticker")
          IN  CASE r.kind = "quote" ->
                     [st |-> asked, ok |-> TRUE, data |-> Payload(symbol, r.price, "yahoo")]
                [] r.kind = "quote_after_429" ->
                     [st |-> _mark_rate_limited(asked, 1), ok |-> TRUE,
                      data |-> Payload(symbol, r.price, "yahoo")]
                [] r.kind = "429" ->
                     [st |-> _mark_rate_limited(asked, 1), ok |-> FALSE, data |-> NoData]
                [] OTHER ->
                     [st |-> asked, ok |-> FALSE, data |-> NoData]
          : r \in YahooResponses}

\* _fetch_yahoo under @retry(stop_after_attempt(3), wait_exponential,
\* retry_if_exception_type(DataFetchError), reraise=True), from attempt k on
RECURSIVE _fetch_yahoo(_, _, _)
_fetch_yahoo(symbol, st, k) ==
    UNION {IF a.ok \/ k >= 3 THEN {a}
           ELSE _fetch_yahoo(symbol, Did(a.st, "sleep"), k + 1)
           : a \in YahooAttempts(symbol, st)}

\* _fetch_finviz: a quote, or None (its exceptions are caught)
_fetch_finviz(symbol, st) ==
    {[st |-> Did(st, "finviz"), kind |-> "None", data |-> NoData]}
    \cup {[st |-> Did(st, "finviz"), kind |-> "data", data |-> Payload(symbol, p, "finviz")]
          : p \in QuotePrices}

\* _fetch_stockdata: a quote, None (no key, no data, RequestException), or an
\* exception that is no RequestException (a price that float() rejects)
_fetch_stockdata(symbol, st) ==
    {[st |-> Did(st, "stockdata"), kind |-> k, data |-> NoData] : k \in {"None", "raised"}}
    \cup {[st |-> Did(st, "stockdata"), kind |-> "data", data |-> Payload(symbol, p, "stockdata")]
          : p \in QuotePrices}

\* _fetch_yahoo_quote: as _fetch_stockdata
_fetch_yahoo_quote(symbol, st) ==
    {[st |-> Did(st, "yahoo_quote"), kind |-> k, data |-> NoData] : k \in {"None", "raised"}}
    \cup {[st |-> Did(st, "yahoo_quote"), kind |-> "data",
           data |-> Payload(symbol, p, "yahoo_quote")]
          : p \in QuotePrices}

\* (the quote is returned and not kept)
CacheFundamentals_NoStore(symbol, st, d) == [st |-> st, ret |-> RetData(d)]

\* _FUNDAMENTAL_CACHE[symbol] = {"data": d, "timestamp": time.time()}; return d
CacheFundamentals(symbol, st, d) ==
    [st |-> [st EXCEPT !.fund = Put(st.fund, symbol, Entry(d, st.now))], ret |-> RetData(d)]

\* mutant: the failure of the last provider is cached as an empty quote
AfterYahooQuote_CacheNone(symbol, r) ==
    IF r.kind = "data" THEN CacheFundamentals(symbol, r.st, r.data)
    ELSE IF r.kind = "raised" THEN [st |-> r.st, ret |-> RetRaised]
    ELSE [st |-> [r.st EXCEPT !.fund = Put(r.st.fund, symbol, Entry(NoData, r.st.now))],
          ret |-> RetNone]

\* fetch_fundamentals after _fetch_yahoo_quote
AfterYahooQuote(symbol, r) ==
    IF r.kind = "data" THEN CacheFundamentals(symbol, r.st, r.data)
    ELSE IF r.kind = "raised" THEN [st |-> r.st, ret |-> RetRaised]
    ELSE [st |-> r.st, ret |-> RetNone]

\* fetch_fundamentals after _fetch_stockdata
AfterStockdata(symbol, r) ==
    IF r.kind = "data" THEN {CacheFundamentals(symbol, r.st, r.data)}
    ELSE IF r.kind = "raised" THEN {[st |-> r.st, ret |-> RetRaised]}
    ELSE {AfterYahooQuote(symbol, q) : q \in _fetch_yahoo_quote(symbol, r.st)}

\* fetch_fundamentals after _fetch_finviz
AfterFinviz(symbol, r) ==
    IF r.kind = "data" THEN {CacheFundamentals(symbol, r.st, r.data)}
    ELSE UNION {AfterStockdata(symbol, q) : q \in _fetch_stockdata(symbol, r.st)}

\* mutant: after Yahoo fails the last provider is asked next
AfterYahoo_QuoteNext(symbol, a) ==
    IF a.ok THEN {CacheFundamentals(symbol, a.st, a.data)}
    ELSE {AfterYahooQuote(symbol, q) : q \in _fetch_yahoo_quote(symbol, a.st)}

\* fetch_fundamentals after _fetch_yahoo
AfterYahoo(symbol, a) ==
    IF a.ok THEN {CacheFundamentals(symbol, a.st, a.data)}
    ELSE UNION {AfterFinviz(symbol, q) : q \in _fetch_finviz(symbol, a.st)}

\* fetch_fundamentals(symbol): the ways the call can end
fetch_fundamentals(symbol, st) ==
    IF Fresh(st.fund, symbol, st)
    THEN {[st |-> st, ret |-> RetData(st.fund[symbol].data)]}
    ELSE UNION {AfterYahoo(symbol, a) : a \in _fetch_yahoo(symbol, st, 1)}

\* what yf.download can give _download_yfinance: a frame with complete rows, a
\* frame whose rows all hold a NaN, an empty frame, an exception whose message
\* holds "429", another exception
DownloadKinds == {"frame", "nan_frame", "empty", "429", "error"}

\* _download_yfinance: the state after it and the frame, or DataFetchError
_download_yfinance(symbol, st) ==
    IF _is_rate_limited(st)
    THEN {[st |-> st, ok |-> FALSE, data |-> NoData]}
    ELSE {LET asked == Primary(st, "yf.download")
          IN  CASE k = "frame" ->
                     [st |-> asked, ok |-> TRUE, data |-> Payload(symbol, 5, "yfinance")]
                [] k = "nan_frame" ->
                     [st |-> asked, ok |-> TRUE, data |-> NoData]
                [] k = "429" ->
                     [st |-> _mark_rate_limited(asked, 1), ok |-> FALSE, data |-> NoData]
                [] OTHER ->
                     [st |-> asked, ok |-> FALSE, data |-> NoData]
          : k \in DownloadKinds}

\* the cool-off at the head of an attempt of get_price_history
CoolOff(st) ==
    IF _is_rate_limited(st)
    THEN [Did(st, "sleep") EXCEPT
            !.now = st.now + (IF st.until - st.now < CHART_COOLDOWN_SECONDS
                              THEN st.until - st.now ELSE CHART_COOLDOWN_SECONDS)]
    ELSE st

\* _HISTORY_CACHE[symbol] = {"data": df, "timestamp": now}; return df
CacheHistory(symbol, st, d, stamp) ==
    [st |-> [st EXCEPT !.hist = Put(st.hist, symbol, Entry(d, stamp))], ret |-> RetData(d)]

\* the end of get_price_history: the single-point series from fundamentals
HistoryFallback(symbol, st, stamp) ==
    {IF f.ret.kind = "raised" THEN f
     ELSE IF f.ret.kind = "data" /\ f.ret.data.price # 0
     THEN CacheHistory(symbol, f.st, Payload(symbol, f.ret.data.price, "synthetic"), stamp)
     ELSE [st |-> f.st, ret |-> RetNone]
     : f \in fetch_fundamentals(symbol, st)}

\* the loop of get_price_history from attempt k on (k = 0, 1, 2); stamp is the
\* value of `now` read at the head of the call
RECURSIVE HistoryAttempts(_, _, _, _)
HistoryAttempts(symbol, st, stamp, k) ==
    IF k >= 3 THEN HistoryFallback(symbol, st, stamp)
    ELSE UNION {IF d.ok /\ d.data # NoData
                THEN {CacheHistory(symbol, d.st, d.data, stamp)}
                ELSE HistoryAttempts(symbol, d.st, stamp, k + 1)
                : d \in _download_yfinance(symbol, CoolOff(st))}

\* get_price_history(symbol): the ways the call can end
get_price_history(symbol, st) ==
    IF Fresh(st.hist, symbol, st)
    THEN {[st |-> st, ret |-> RetData(st.hist[symbol].data)]}
    ELSE HistoryAttempts(symbol, st, st.now, 0)

\* a market-data call of data_sources ends as r
DataReturn(op, symbol, r) ==
    /\ request' = [op |-> op, symbol |-> symbol, price |-> 0, at |-> now]
    /\ result' = r.ret
    /\ calls' = r.st.made
    /\ now' = r.st.now
    /\ _rate_limited_until' = r.st.until
    /\ _FUNDAMENTAL_CACHE' = r.st.fund
    /\ _HISTORY_CACHE' = r.st.hist
    /\ UNCHANGED <<cache, _next_chart_allowed>>
    /\ UNCHANGED <<program, today, engine, api, trade_stats, journal, submitted, outcome, outcome_stats,
                   pc, loc, serialized>>

\* one call of data_sources.fetch_fundamentals(symbol)
FetchFundamentalsCall(symbol) ==
    /\ program = "data_sources"
    /\ now <= MaxNow
    /\ \E r \in fetch_fundamentals(symbol, DataState) :
          DataReturn("fetch_fundamentals", symbol, r)

FetchFundamentals == \E symbol \in DataSymbols : FetchFundamentalsCall(symbol)

\* one call of data_sources.get_price_history(symbol)
GetPriceHistoryCall(symbol) ==
    /\ program = "data_sources"
    /\ now <= MaxNow
    /\ \E r \in get_price_history(symbol, DataState) :
          DataReturn("get_price_history", symbol, r)

GetPriceHistory == \E symbol \in DataSymbols : GetPriceHistoryCall(symbol)

----------------------------------------------------------------------------
\* main.py: the chart cache and throttle of the scan endpoints.

\* CACHE_TTL = 300
CACHE_TTL == 300
\* CHART_COOLDOWN_SECONDS = 60 (main.py)
MAIN_CHART_COOLDOWN_SECONDS == 60
\* CHART_THROTTLE_SECONDS = 1.5 (main.py), in whole seconds; the clock moves in
\* minutes, so every value under 60 acts alike
MAIN_CHART_THROTTLE_SECONDS == 2

\* return value of safe_download: pd.DataFrame()
RetEmpty == [kind |-> "empty", data |-> NoData]

\* a call's state in main.py: the clock, _next_chart_allowed, the cache, the
\* provider calls and sleeps made so far
MainDataState ==
    [now |-> now, next |-> _next_chart_allowed, cache |-> cache, made |-> <<>>]

\* get_cached(symbol): is there a frame to return
get_cached(symbol, st) ==
    symbol \in DOMAIN st.cache /\ st.now - st.cache[symbol].timestamp < CACHE_TTL

\* set_cache(symbol, df)
set_cache(symbol, st, df) ==
    [st EXCEPT !.cache = Put(st.cache, symbol, Entry(df, st.now))]

\* what the chart endpoint can give _fetch_chart: a frame; a payload without
\* result, timestamps or quotes; rows without a Close; retries exhausted;
\* HTTP 429; another HTTP error; another failure
ChartKinds == {"frame", "no_result", "no_close", "RetryError", "429", "http_error", "error"}

\* _fetch_chart(symbol): the state after it and the frame, an empty frame, or
\* the exception raised
_fetch_chart(symbol, st, answers) ==
    LET waited == IF st.next - st.now > 0 THEN Did(st, "sleep") ELSE st
        asked == Did(waited, IF st.next - st.now > MAIN_CHART_THROTTLE_SECONDS
                             THEN "chart during cooldown" ELSE "chart")
        stamped == [asked EXCEPT !.next = asked.now + MAIN_CHART_THROTTLE_SECONDS]
    IN  {CASE k = "frame" -> [st |-> stamped, kind |-> "frame", data |-> Payload(symbol, 5, "chart")]
           [] k = "no_close" -> [st |-> stamped, kind |-> "empty", data |-> NoData]
           [] k = "no_result" -> [st |-> asked, kind |-> "empty", data |-> NoData]
           [] OTHER -> [st |-> asked, kind |-> k, data |-> NoData]
         : k \in answers.chart}

\* what yf.download can give safe_download
MainDownloadKinds == {"frame", "empty", "error"}

\* the answers the two providers may give during one call: any of them at
\* every request, or the same one at every request
AnyAnswers == [chart |-> ChartKinds, download |-> MainDownloadKinds]
SteadyAnswers ==
    {[chart |-> {c}, download |-> {d}] : c \in {"no_result", "no_close"}, d \in MainDownloadKinds}
      \cup {[chart |-> {c}, download |-> MainDownloadKinds]
             : c \in ChartKinds \ {"no_result", "no_close"}}

\* the loop of safe_download from the given attempt on (0, 1, 2), and what
\* follows one answer of _fetch_chart
RECURSIVE SafeAttempts(_, _, _, _, _)
RECURSIVE AfterChart(_, _, _, _, _)
SafeAttempts(symbol, st, attempt, cooldown_multiplier, answers) ==
    IF attempt >= 3 THEN {[st |-> st, ret |-> RetEmpty]}
    ELSE IF get_cached(symbol, st)
    THEN {[st |-> st, ret |-> RetData(st.cache[symbol].data)]}
    ELSE UNION {AfterChart(symbol, c, attempt, cooldown_multiplier, answers)
                : c \in _fetch_chart(symbol, st, answers)}

AfterChart(symbol, c, attempt, cooldown_multiplier, answers) ==
    CASE c.kind = "frame" ->
           {[st |-> set_cache(symbol, c.st, c.data), ret |-> RetData(c.data)]}
      [] c.kind = "empty" ->
           UNION {LET asked == Did(c.st, "yf.download")
                  IN  CASE k = "frame" ->
                             {[st |-> set_cache(symbol, asked, Payload(symbol, 5, "yfinance")),
                               ret |-> RetData(Payload(symbol, 5, "yfinance"))]}
                        [] k = "empty" ->
                             SafeAttempts(symbol, asked, attempt + 1, cooldown_multiplier,
                                          answers)
                        [] OTHER ->
                             SafeAttempts(symbol, Did(asked, "sleep"), attempt + 1,
                                          cooldown_multiplier, answers)
                  : k \in answers.download}
      [] c.kind \in {"RetryError", "429"} ->
           SafeAttempts(symbol,
                        Did([c.st EXCEPT !.next = c.st.now
                                + MAIN_CHART_COOLDOWN_SECONDS * cooldown_multiplier], "sleep"),
                        attempt + 1, cooldown_multiplier * 2, answers)
      [] c.kind = "http_error" ->
           {[st |-> c.st, ret |-> RetEmpty]}
      [] OTHER ->
           SafeAttempts(symbol, Did(c.st, "sleep"), attempt + 1, cooldown_multiplier, answers)

\* safe_download(symbol): the ways the call can end
safe_download(symbol, st, answers) == SafeAttempts(symbol, st, 0, 1, answers)

\* one call of main.safe_download(symbol)
SafeDownloadCall(symbol) ==
    /\ program = "main"
    /\ now <= MaxNow
    /\ \E r \in safe_download(symbol, MainDataState, AnyAnswers) :
          /\ request' = [op |-> "safe_download", symbol |-> symbol, price |-> 0, at |-> now]
          /\ result' = r.ret
          /\ calls' = r.st.made
          /\ now' = r.st.now
          /\ cache' = r.st.cache
          /\ _next_chart_allowed' = r.st.next
    /\ UNCHANGED <<_rate_limited_until, _FUNDAMENTAL_CACHE, _HISTORY_CACHE>>
    /\ UNCHANGED <<program, today, engine, api, trade_stats, journal, submitted, outcome, outcome_stats,
                   pc, loc, serialized>>

SafeDownload == \E symbol \in DataSymbols : SafeDownloadCall(symbol)

\* a minute passes
Tick ==
    /\ now < MaxNow
    /\ now' = now + 60
    /\ UNCHANGED <<_rate_limited_until, _FUNDAMENTAL_CACHE, _HISTORY_CACHE, cache,
                   _next_chart_allowed, result>>
    /\ UNCHANGED <<program, today, engine, api, trade_stats, journal, submitted, request,
                   outcome, outcome_stats, calls, pc, loc, serialized>>

InitData ==
    /\ program \in {"data_sources", "main"}
    /\ engine = MainArgs
    /\ today = 0
    /\ api = TRUE
    /\ trade_stats = FreshStats(0)
    /\ journal = <<>>
    /\ submitted = 0
    /\ request = [op |-> "none", symbol |-> "", price |-> 0, at |-> 0]
    /\ outcome = NoOutcome
    /\ outcome_stats = NoStats
    /\ calls = <<>>
    /\ pc = <<>>
    /\ loc = <<>>
    /\ serialized = TRUE
    /\ DataIdle

NextData ==
    \/ FetchFundamentals
    \/ GetPriceHistory
    \/ SafeDownload
    \/ Tick

\* Specification: market-data calls run one at a time, each to completion
SpecData == InitData /\ [][NextData]_vars

\* ---------------------------------------------------------------------------
\* Scans and rankings: main.analyze_tickers, microcap_scanner.gather_products,
\* combine_signals.combined_signals
\* ---------------------------------------------------------------------------

\* the symbol lists analyze_tickers is given
ScanLists == {<<"AAA", "BBB">>}

\* what the indicators and get_sentiment can give for a frame: the RSI, the
\* trend (ema9 > ema21 or not) and the sentiment
Readings ==
    {[rsi |-> 30, trend |-> "Bullish", sentiment |-> "Neutral"],
     [rsi |-> 70, trend |-> "Bearish", sentiment |-> "Positive"]}

\* round(float(((rsi / 100) + (1 if Bullish else 0) + sentiment_boost) / 2), 2),
\* in hundredths (the readings above give whole hundredths)
Score(reading) ==
    (reading.rsi + (IF reading.trend = "Bullish" THEN 100 ELSE 0)
                 + (IF reading.sentiment = "Positive" THEN 10 ELSE 0)) \div 2

\* candidates of the two rankings, and the keys their elements can carry
RankSymbols == {"AAA", "BBB", "CCC"}
RankValues == {0, 1, 3}

\* limits gather_products is called with, and the ones the query validation
\* of combined_signals lets through (ge=1)
ProductLimits == {-1, 0, 1, 2}
SignalLimits == {1, 2}

DEFAULT_RESULT_LIMIT == 10

RetList(items) == [kind |-> "list", data |-> items]

\* list.sort(key=lambda item: item[field], reverse=True): descending by the
\* key, elements with equal keys keep their order
RECURSIVE Insert(_, _, _)
Insert(item, sorted, field) ==
    IF sorted = <<>> THEN <<item>>
    ELSE IF Head(sorted)[field] >= item[field]
    THEN <<Head(sorted)>> \o Insert(item, Tail(sorted), field)
    ELSE <<item>> \o sorted

\* the same call leaving the list as it was built
sort_reverse_Unsorted(list, field) == list

RECURSIVE sort_reverse(_, _)
sort_reverse(list, field) ==
    IF list = <<>> THEN <<>>
    ELSE Insert(list[Len(list)], sort_reverse(SubSeq(list, 1, Len(list) - 1), field), field)

\* list[:n]
Slice(list, n) ==
    IF n >= 0 THEN SubSeq(list, 1, IF n < Len(list) THEN n ELSE Len(list))
    ELSE SubSeq(list, 1, IF Len(list) + n > 0 THEN Len(list) + n ELSE 0)

\* mutant: an empty frame ends the loop
RECURSIVE ScanFrom_StopAtEmpty(_, _, _, _, _)
ScanFrom_StopAtEmpty(symbols, i, st, results, answers) ==
    IF i > Len(symbols) THEN {[st |-> st, results |-> results]}
    ELSE UNION {
           IF r.ret.kind # "data" THEN {[st |-> r.st, results |-> results]}
           ELSE (IF r.ret.data.source = "yfinance"
                 THEN ScanFrom_StopAtEmpty(symbols, i + 1, r.st, results, answers) ELSE {})
                \cup UNION {ScanFrom_StopAtEmpty(symbols, i + 1, Did(r.st, "finviz"),
                                     Append(results,
                                            [symbol |-> symbols[i], rsi |-> rd.rsi,
                                             trend |-> rd.trend, sentiment |-> rd.sentiment,
                                             score |-> Score(rd)]),
                                     answers)
                            : rd \in Readings}
           : r \in safe_download(symbols[i], Did(st, "safe_download"), answers[symbols[i]])}

\* the loop of analyze_tickers from the i-th symbol on: safe_download, skip an
\* empty frame or one without a Close, else the sentiment request and one more
\* result with the score computed from the frame
RECURSIVE ScanFrom(_, _, _, _, _)
ScanFrom(symbols, i, st, results, answers) ==
    IF i > Len(symbols) THEN {[st |-> st, results |-> results]}
    ELSE UNION {
           IF r.ret.kind # "data" THEN ScanFrom(symbols, i + 1, r.st, results, answers)
           ELSE (IF r.ret.data.source = "yfinance"
                 THEN ScanFrom(symbols, i + 1, r.st, results, answers) ELSE {})
                \cup UNION {ScanFrom(symbols, i + 1, Did(r.st, "finviz"),
                                     Append(results,
                                            [symbol |-> symbols[i], rsi |-> rd.rsi,
                                             trend |-> rd.trend, sentiment |-> rd.sentiment,
                                             score |-> Score(rd)]),
                                     answers)
                            : rd \in Readings}
           : r \in safe_download(symbols[i], Did(st, "safe_download"), answers[symbols[i]])}

\* analyze_tickers(symbols): the ways the call can end
analyze_tickers(symbols, st, answers) ==
    {[st |-> r.st, ret |-> RetList(sort_reverse(r.results, "score"))]
     : r \in ScanFrom(symbols, 1, st, <<>>, answers)}

\* one call of main.analyze_tickers(symbols)
AnalyzeTickersCall(symbols) ==
    /\ program = "main"
    /\ now <= MaxNow
    /\ \E answers \in [Range(symbols) -> SteadyAnswers] :
       \E r \in analyze_tickers(symbols, MainDataState, answers) :
          /\ request' = [op |-> "analyze_tickers", symbol |-> symbols[1], price |-> 0,
                         at |-> now]
          /\ result' = r.ret
          /\ calls' = r.st.made
          /\ now' = r.st.now
          /\ cache' = r.st.cache
          /\ _next_chart_allowed' = r.st.next
    /\ UNCHANGED <<_rate_limited_until, _FUNDAMENTAL_CACHE, _HISTORY_CACHE>>
    /\ UNCHANGED <<program, today, engine, api, trade_stats, journal, submitted, outcome,
                   outcome_stats, pc, loc, serialized>>

AnalyzeTickers == \E symbols \in ScanLists : AnalyzeTickersCall(symbols)

\* the lists of distinct candidates, each carrying its key
Candidates ==
    UNION {{[i \in 1..n |-> [symbol |-> order[i], score |-> key[i]]]
            : order \in {f \in [1..n -> RankSymbols] :
                           \A i, j \in 1..n : i # j => f[i] # f[j]},
              key \in [1..n -> RankValues]}
           : n \in 0..Cardinality(RankSymbols)}

\* the products gather_products has built before it ranks them: one per
\* filtered symbol, rank_score as computed from sentiment and market cap
Products == {[i \in DOMAIN c |-> [symbol |-> c[i].symbol, rank_score |-> c[i].score]]
             : c \in Candidates}

\* gather_products(limit) from the built products on
gather_products(products, limit) ==
    Slice(sort_reverse(products, "rank_score"),
          IF limit # 0 THEN limit ELSE DEFAULT_RESULT_LIMIT)

\* one call of microcap_scanner.gather_products(limit)
GatherProductsCall(products, limit) ==
    /\ program = "microcap_scanner"
    /\ request' = [op |-> "gather_products", symbol |-> "", price |-> 0, at |-> now]
    /\ result' = RetList(gather_products(products, limit))
    /\ calls' = <<>>
    /\ loc' = <<[built |-> products, limit |-> limit]>>
    /\ UNCHANGED dataVarsButResult
    /\ UNCHANGED <<program, today, engine, api, trade_stats, journal, submitted, outcome,
                   outcome_stats, pc, serialized>>

GatherProducts ==
    \E products \in Products, limit \in ProductLimits : GatherProductsCall(products, limit)

\* the scored lists combined_signals can have built: common_symbols is
\* sorted, and a symbol without a market cap is skipped
Alphabetical == <<"AAA", "BBB", "CCC">>
Scored ==
    {c \in Candidates :
       \A i, j \in DOMAIN c :
          i < j => \E a, b \in DOMAIN Alphabetical :
                      a < b /\ Alphabetical[a] = c[i].symbol /\ Alphabetical[b] = c[j].symbol}

\* combined_signals(limit) from the scored list on
combined_signals(scored, limit) == Slice(sort_reverse(scored, "score"), limit)

\* one call of combine_signals.combined_signals(limit)
CombinedSignalsCall(scored, limit) ==
    /\ program = "combine_signals"
    /\ request' = [op |-> "combined_signals", symbol |-> "", price |-> 0, at |-> now]
    /\ result' = RetList(combined_signals(scored, limit))
    /\ calls' = <<>>
    /\ loc' = <<[built |-> scored, limit |-> limit]>>
    /\ UNCHANGED dataVarsButResult
    /\ UNCHANGED <<program, today, engine, api, trade_stats, journal, submitted, outcome,
                   outcome_stats, pc, serialized>>

CombinedSignals ==
    \E scored \in Scored, limit \in SignalLimits :
        CombinedSignalsCall(scored, limit)

\* the rows the two Finviz filter requests of scan_finviz_insider_stocks can
\* give, one after the other: a symbol, and a price and an average volume
\* that _parse_float / _parse_volume could read (known) or not (None)
InsiderRows ==
    LET Values(vs) == {[known |-> FALSE, value |-> 0]} \cup {[known |-> TRUE, value |-> v] : v \in vs}
        Row == [symbol : {"AAA", "BBB"}, price : Values({5, 12}),
                avg_volume : Values({200000, 400000})]
    IN  {<<>>} \cup {<<r>> : r \in Row} \cup {<<r, q>> : r, q \in Row}

\* scan_finviz_insider_stocks from the rows on: a candidate per symbol keeps
\* the last price and the last volume that could be read; the candidates
\* that pass the tests become records, sorted by symbol
scan_finviz_insider_stocks(rows) ==
    LET Last(sym, field) ==
            LET known == {i \in DOMAIN rows : rows[i].symbol = sym /\ rows[i][field].known}
            IN  IF known = {} THEN [known |-> FALSE, value |-> 0]
                ELSE rows[CHOOSE i \in known : \A j \in known : j <= i][field]
        Passes(sym) ==
            /\ \E i \in DOMAIN rows : rows[i].symbol = sym
            /\ ~(~Last(sym, "price").known \/ Last(sym, "price").value > 10)
            /\ ~(Last(sym, "avg_volume").known /\ Last(sym, "avg_volume").value < 300000)
        kept == SelectSeq(Alphabetical, Passes)
    IN  [i \in DOMAIN kept |->
           [symbol |-> kept[i], price |-> Last(kept[i], "price"),
            avg_volume |-> Last(kept[i], "avg_volume")]]

\* one call of app.scan_finviz_insider_stocks()
ScanFinvizInsiderStocks ==
    \E rows \in InsiderRows :
       /\ program = "app"
       /\ request' = [op |-> "scan_finviz_insider_stocks", symbol |-> "", price |-> 0, at |-> now]
       /\ result' = RetList(scan_finviz_insider_stocks(rows))
       /\ calls' = <<>>
       /\ loc' = <<[built |-> rows, limit |-> 0]>>
       /\ UNCHANGED dataVarsButResult
       /\ UNCHANGED <<program, today, engine, api, trade_stats, journal, submitted, outcome,
                      outcome_stats, pc, serialized>>

\* what the insider-trades feed can hold: up to two entries, each with a
\* ticker and a transaction
Feeds ==
    UNION {[1..n -> {[ticker |-> t, transaction |-> x]
                     : t \in {"AAA", "BBB"}, x \in {"Buy", "Sale"}}] : n \in 0..2}

\* app.scan_stocks() during market hours with both API keys set: feed is the
\* answer of the insider-trades request, quotes[i] what the quote request made
\* for the i-th entry gives (a price within 1..10, a price outside, a failure)
scan_stocks(feed, quotes) ==
    IF feed.raises THEN <<>>
    ELSE LET qualifying[i \in 0..Len(feed.data)] ==
                 IF i = 0 THEN <<>>
                 ELSE IF feed.data[i].transaction \in {"Buy", "buy", "BUY"}
                         /\ quotes[i] = "in band"
                      THEN Append(qualifying[i - 1],
                                  [symbol |-> feed.data[i].ticker, price |-> 5])
                      ELSE qualifying[i - 1]
         IN  qualifying[Len(feed.data)]

\* app.auto_trade() from the scan on: the brokerage calls it makes, given the
\* symbols get_all_positions() reported (none when it raised) and whether the
\* brokerage accepts the i-th order
auto_trade(stocks, positions, accepts) ==
    LET made[i \in 0..Len(stocks)] ==
            IF i = 0 THEN <<"get_all_positions">>
            ELSE IF stocks[i].symbol \in positions
                 THEN made[i - 1]
                 ELSE made[i - 1] \o <<"get_account",
                                       IF accepts[i] THEN "submit_order " \o stocks[i].symbol
                                                     ELSE "submit_order refused">>
    IN  IF stocks = <<>> THEN <<>> ELSE made[Len(stocks)]

\* one cycle of app.auto_trade(); held is the set of symbols with an open
\* position at the brokerage
AutoTrade ==
    \E market_hours \in BOOLEAN, feed_raises \in BOOLEAN, data \in Feeds,
       held \in {{}, {"AAA"}}, positions_raises \in BOOLEAN :
       \E quotes \in [DOMAIN data -> {"in band", "out of band", "fails"}],
          accepts \in [1..2 -> BOOLEAN] :
          LET stocks == IF market_hours
                        THEN scan_stocks([raises |-> feed_raises, data |-> data], quotes)
                        ELSE <<>>
          IN  /\ program = "app"
              /\ request' = [op |-> "auto_trade", symbol |-> "", price |-> 0, at |-> now]
              /\ result' = RetList(stocks)
              /\ calls' = auto_trade(stocks, IF positions_raises THEN {} ELSE held, accepts)
              /\ loc' = <<[built |-> data, limit |-> 0, held |-> held]>>
              /\ UNCHANGED dataVarsButResult
              /\ UNCHANGED <<program, today, engine, api, trade_stats, journal, submitted,
                             outcome, outcome_stats, pc, serialized>>

InitScan ==
    /\ program \in {"main", "microcap_scanner", "combine_signals", "app"}
    /\ engine = MainArgs
    /\ today = 0
    /\ api = TRUE
    /\ trade_stats = FreshStats(0)
    /\ journal = <<>>
    /\ submitted = 0
    /\ request = [op |-> "none", symbol |-> "", price |-> 0, at |-> 0]
    /\ outcome = NoOutcome
    /\ outcome_stats = NoStats
    /\ calls = <<>>
    /\ pc = <<>>
    /\ loc = <<>>
    /\ serialized = TRUE
    /\ DataIdle

NextScan ==
    \/ AnalyzeTickers
    \/ GatherProducts
    \/ CombinedSignals
    \/ ScanFinvizInsiderStocks
    \/ AutoTrade

\* Specification: scans and rankings run one at a time, each to completion,
\* all within the same minute
SpecScan == InitScan /\ [][NextScan]_vars

----------------------------------------------------------------------------
\* Specification: calls run one at a time, each to completion

Init ==
    /\ \/ program = "trade_engine" /\ engine \in EngineArgs
       \/ program = "main" /\ engine = MainArgs
    /\ today = 0
    /\ api \in BOOLEAN
    /\ trade_stats = FreshStats(0)
    /\ journal = <<>>
    /\ submitted = 0
    /\ request = [op |-> "none", symbol |-> "", price |-> 0, at |-> 0]
    /\ outcome = NoOutcome
    /\ outcome_stats = NoStats
    /\ calls = <<>>
    /\ pc = <<>>
    /\ loc = <<>>
    /\ serialized = TRUE
    /\ DataIdle

Next ==
    \/ AttemptTrade
    \/ ResetIfNewDay
    \/ TradeSignal
    \/ ResetDailyBudget
    \/ Midnight

Spec == Init /\ [][Next]_vars

----------------------------------------------------------------------------
\* Interleaved calls.  Several callers (request threads) run attempt_trade or
\* trade_signal on the same TradeStats; a caller can be overtaken by another
\* one while it waits in a brokerage or provider call.  The code takes no
\* lock: `serialized` says whether the callers are serialized from outside.

Callers == {1, 2}

Idle == [symbol |-> "", price |-> 0, action |-> "", made |-> <<>>]

\* a caller may enter its call
MayEnter(t) ==
    /\ pc[t] = "idle"
    /\ serialized => \A u \in Callers : pc[u] = "idle"
    /\ Len(journal) < MaxJournal

\* caller t goes on to wait in brokerage call `at`
Wait(t, at, l) ==
    /\ pc' = [pc EXCEPT ![t] = at]
    /\ loc' = [loc EXCEPT ![t] = l]
    /\ UNCHANGED <<request, outcome, outcome_stats, calls>>

\* caller t returns `out`
Leave(t, l, out) ==
    /\ pc' = [pc EXCEPT ![t] = "idle"]
    /\ loc' = [loc EXCEPT ![t] = Idle]
    /\ request' = [op |-> IF InEngine THEN "attempt_trade" ELSE "trade_signal",
                   symbol |-> l.symbol, price |-> IF InEngine THEN l.price ELSE 0, at |-> 0]
    /\ outcome' = out
    /\ outcome_stats' = StatsOf(trade_stats', out)
    /\ calls' = l.made

\* attempt_trade up to its first brokerage call: the roll-over check, the
\* sizing and the gates that read TradeStats
EngineEnter(t) ==
    /\ InEngine /\ MayEnter(t)
    /\ UNCHANGED <<dataVars, program, today, engine, api, serialized, journal, submitted>>
    /\ trade_stats' = reset_if_new_day(trade_stats)
    /\ \E symbol \in Symbols, price \in Prices :
          LET l == [Idle EXCEPT !.symbol = symbol, !.price = price]
          IN  IF ~api THEN Leave(t, l, Simulated)
              ELSE IF price = 0 THEN Leave(t, l, Raised("ZeroDivisionError"))
              ELSE IF PerTradeGate(price) THEN Leave(t, l, Rejected(ERR_PER_TRADE))
              ELSE IF LocalGate(trade_stats', price * Qty(price)) # ""
              THEN Leave(t, l, Rejected(LocalGate(trade_stats', price * Qty(price))))
              ELSE Wait(t, "list_positions", l)

\* api.list_positions() answers caller t
EngineListPositions(t) ==
    /\ InEngine /\ pc[t] = "list_positions"
    /\ UNCHANGED <<dataVars, program, today, engine, api, serialized, journal, submitted, trade_stats>>
    /\ \E pos \in PositionResponses :
          LET l == [loc[t] EXCEPT !.made = <<ListPositions(pos)>>]
          IN  IF PositionGate(pos) # ""
              THEN Leave(t, l, Rejected(PositionGate(pos)))
              ELSE Wait(t, "submit_order", l)

\* api.submit_order() answers caller t; the counters are updated on success
EngineSubmitOrder(t) ==
    /\ InEngine /\ pc[t] = "submit_order"
    /\ UNCHANGED <<dataVars, program, today, engine, api, serialized, journal>>
    /\ \E sub \in SubmitResponses :
          LET l == [loc[t] EXCEPT !.made = Append(loc[t].made, "submit_order")]
          IN  /\ trade_stats' = AfterSubmit(trade_stats, l.price * Qty(l.price), sub)
              /\ IF sub.raises
                 THEN Leave(t, l, Rejected(ERR_SUBMIT)) /\ UNCHANGED submitted
                 ELSE Wait(t, "get_account", l) /\ submitted' = submitted + 1

\* api.get_account() answers caller t inside _log_pnl
EngineGetAccount(t) ==
    /\ InEngine /\ pc[t] = "get_account"
    /\ UNCHANGED <<dataVars, program, today, engine, api, serialized, submitted>>
    /\ \E acct \in AccountResponses :
          LET l == [loc[t] EXCEPT !.made = Append(loc[t].made, "get_account")]
              log == _log_pnl(trade_stats, journal, acct)
          IN  /\ trade_stats' = log.stats
              /\ journal' = log.file
              /\ Leave(t, l, Placed(Qty(l.price), l.price))

\* trade_signal up to its first brokerage call
MainEnter(t) ==
    /\ InMain /\ MayEnter(t)
    /\ UNCHANGED <<dataVars, program, today, engine, api, serialized, journal, submitted>>
    /\ trade_stats' = reset_daily_budget(trade_stats)
    /\ \E symbol \in Symbols, action \in {"buy", "sell"} :
          LET l == [Idle EXCEPT !.symbol = symbol, !.action = action]
          IN  IF MainEntryGate(trade_stats') # ""
              THEN Leave(t, l, Rejected(MainEntryGate(trade_stats')))
              ELSE Wait(t, "get_latest_trade", l)

\* trade_signal from the point where the price is known, up to submit_order
MainPriced(t, l, known, price) ==
    IF ~known \/ price <= 0 THEN Leave(t, l, Rejected(MAIN_ERR_PRICE))
    ELSE IF MainPriceGate(trade_stats, price, l.action) # ""
    THEN Leave(t, l, Rejected(MainPriceGate(trade_stats, price, l.action)))
    ELSE Wait(t, "submit_order", [l EXCEPT !.price = price])

\* api.get_latest_trade() answers caller t
MainLatestTrade(t) ==
    /\ InMain /\ pc[t] = "get_latest_trade"
    /\ UNCHANGED <<dataVars, program, today, engine, api, serialized, journal, submitted, trade_stats>>
    /\ \E latest \in LatestTradeResponses :
          LET l == [loc[t] EXCEPT !.made = <<"get_latest_trade">>]
          IN  IF latest.raises THEN Wait(t, "yf.download", l)
              ELSE MainPriced(t, l, TRUE, latest.price)

\* yf.download() answers caller t
MainDownload(t) ==
    /\ InMain /\ pc[t] = "yf.download"
    /\ UNCHANGED <<dataVars, program, today, engine, api, serialized, journal, submitted, trade_stats>>
    /\ \E df \in DownloadResponses :
          MainPriced(t, [loc[t] EXCEPT !.made = Append(loc[t].made, "yf.download")],
                     ~df.empty, df.price)

\* api.submit_order() answers caller t; the counters are updated on success
MainSubmitOrder(t) ==
    /\ InMain /\ pc[t] = "submit_order"
    /\ UNCHANGED <<dataVars, program, today, engine, api, serialized, journal>>
    /\ \E sub \in SubmitResponses :
          LET l == [loc[t] EXCEPT !.made = Append(loc[t].made, "submit_order")]
          IN  /\ trade_stats' = MainAfterSubmit(trade_stats, l.price * MainQty(l.price), sub)
              /\ IF sub.raises
                 THEN Leave(t, l, Rejected(ERR_SUBMIT)) /\ UNCHANGED submitted
                 ELSE Wait(t, "get_account", l) /\ submitted' = submitted + 1

\* api.get_account() answers caller t
MainGetAccount(t) ==
    /\ InMain /\ pc[t] = "get_account"
    /\ UNCHANGED <<dataVars, program, today, engine, api, serialized, submitted>>
    /\ \E acct \in MainAccountResponses :
          LET l == [loc[t] EXCEPT !.made = Append(loc[t].made, "get_account")]
              log == MainLogPnl(trade_stats, journal, l.symbol, MainQty(l.price), l.price, acct)
          IN  /\ trade_stats' = log.stats
              /\ journal' = log.file
              /\ Leave(t, l, Placed(MainQty(l.price), l.price))

InitConc ==
    /\ \/ program = "trade_engine" /\ engine \in EngineArgs
       \/ program = "main" /\ engine = MainArgs
    /\ today = 0
    /\ api = TRUE
    /\ trade_stats = FreshStats(0)
    /\ journal = <<>>
    /\ submitted = 0
    /\ request = [op |-> "none", symbol |-> "", price |-> 0, at |-> 0]
    /\ outcome = NoOutcome
    /\ outcome_stats = NoStats
    /\ calls = <<>>
    /\ pc = [t \in Callers |-> "idle"]
    /\ loc = [t \in Callers |-> Idle]
    /\ serialized \in BOOLEAN
    /\ DataIdle

NextConc ==
    \E t \in Callers :
        \/ EngineEnter(t)
        \/ EngineListPositions(t)
        \/ EngineSubmitOrder(t)
        \/ EngineGetAccount(t)
        \/ MainEnter(t)
        \/ MainLatestTrade(t)
        \/ MainDownload(t)
        \/ MainSubmitOrder(t)
        \/ MainGetAccount(t)

\* Specification: callers interleave at the brokerage calls, within one day
SpecConc == InitConc /\ [][NextConc]_vars

----------------------------------------------------------------------------
\* Properties of the trade engine

NoRolloverDue == trade_stats.date = today

\* C1: used_capital never exceeds the daily budget and trades never exceeds
\* the daily trade limit, in TradeEngine (daily_budget, max_trades) and in
\* main.trade_signal (DAILY_BUDGET, MAX_TRADES_PER_DAY), whatever the prices
\* and the brokerage's responses.
C1_BudgetAndCountBounded ==
    /\ InEngine => /\ trade_stats.used_capital <= daily_budget
                   /\ trade_stats.trades <= max_trades
    /\ InMain => /\ trade_stats.used_capital <= DAILY_BUDGET
                 /\ trade_stats.trades <= MAX_TRADES_PER_DAY

\* C1 witness: a trade at a positive price was turned down by the daily-budget
\* gate after an earlier trade of the day had been accepted.
C1_Witness ==
    /\ InEngine /\ NoRolloverDue
    /\ request.price > 0
    /\ outcome = Rejected(ERR_DAILY)
    /\ trade_stats.trades >= 1
    /\ trade_stats.used_capital + request.price * Qty(request.price) > daily_budget

\* C2 (as claimed, here for the positive prices alone): once the engine is
\* halted, every attempt_trade call of the same day returns the halted reason
\* and submits no order.  attempt_trade tests the per-trade budget before
\* _can_trade looks at stopped, so a halted engine answers a price above
\* per_trade_budget with the per-trade reason (and a price of 0 with
\* ZeroDivisionError).
C2_HaltedRejectsWithHaltedReason ==
    [][(InEngine /\ trade_stats.stopped /\ NoRolloverDue /\ AttemptTrade
        /\ request'.price > 0)
         => (outcome' = Rejected(ERR_HALTED) /\ calls' = <<>>)]_vars

\* C3: stopped goes from FALSE to TRUE only in a call whose order was accepted
\* and whose account query gave equity - last_equity below
\* -daily_budget x drawdown_limit_percent; it goes from TRUE to FALSE only by
\* the roll-over reset, taken when the stored date differs from today.
C3_TwoStateMachine ==
    [][InEngine =>
         /\ (~trade_stats.stopped /\ trade_stats'.stopped) =>
               /\ outcome'.status = "order placed"
               /\ calls'[Len(calls')] = "get_account"
               /\ trade_stats'.pnl * 100 < -(daily_budget * drawdown_limit_percent)
         /\ (trade_stats.stopped /\ ~trade_stats'.stopped) =>
               /\ trade_stats.date # today
               /\ trade_stats'.date = today
               /\ trade_stats'.trades \in {0, 1}]_vars

\* C3 witness: the journal shows the engine halted on an earlier day and the
\* engine is active again on a later one.
C3_Witness ==
    /\ InEngine /\ ~trade_stats.stopped
    /\ \E i \in DOMAIN journal :
          journal[i].stats.stopped /\ journal[i].stats.date < trade_stats.date

\* C4: an attempt_trade call that returns one of the five rejections, on a day
\* for which no roll-over is due, leaves TradeStats as it was, submits no order
\* and appends nothing to the journal.
C4_RejectionHasNoEffect ==
    [][(InEngine /\ NoRolloverDue /\ AttemptTrade
        /\ outcome'.status = "error"
        /\ outcome'.error \in {ERR_HALTED, ERR_COUNT, ERR_DAILY, ERR_POSITIONS, ERR_PER_TRADE})
         => /\ trade_stats' = trade_stats
            /\ journal' = journal
            /\ submitted' = submitted
            /\ "submit_order" \notin Range(calls')]_vars

\* C4 witness: the max-positions rejection, after a trade of the same day.
C4_Witness ==
    /\ InEngine /\ NoRolloverDue
    /\ outcome = Rejected(ERR_POSITIONS)
    /\ trade_stats.trades >= 1

\* C5: when submit_order raises, attempt_trade and trade_signal return an error
\* outcome instead of raising; used_capital, trades, pnl, stopped and the
\* journal are left as they were when the order was submitted (the statistics
\* the call's own roll-over check produced).
C5_RefusedOrderHasNoEffect ==
    [][((AttemptTrade \/ TradeSignal)
        /\ calls' # <<>> /\ calls'[Len(calls')] = "submit_order")
         => /\ outcome'.status = "error"
            /\ trade_stats' = IF trade_stats.date # today THEN FreshStats(today)
                                                           ELSE trade_stats
            /\ journal' = journal
            /\ submitted' = submitted]_vars

\* C5 witness: a refused order on a day that already has an accepted trade.
C5_Witness ==
    /\ NoRolloverDue
    /\ calls # <<>> /\ calls[Len(calls)] = "submit_order"
    /\ outcome = Rejected(ERR_SUBMIT)
    /\ trade_stats.trades >= 1 /\ trade_stats.used_capital > 0

\* C6: with a client configured, attempt_trade at a price above
\* per_trade_budget is rejected with the per-trade reason and makes no
\* brokerage call at all.
C6_OverBudgetPriceRejectedBeforeBrokerage ==
    (InEngine /\ api /\ request.op = "attempt_trade" /\ request.price > per_trade_budget)
      => /\ outcome = Rejected(ERR_PER_TRADE)
         /\ calls = <<>>

\* C6 witness: such a call was made while the engine was able to trade.
C6_Witness ==
    /\ InEngine /\ api
    /\ request.op = "attempt_trade" /\ request.price > per_trade_budget
    /\ ~trade_stats.stopped /\ trade_stats.trades < max_trades

\* C7: with the callers serialized, no interleaved run reaches a state with
\* trades above the trade limit or used_capital above the daily budget
\* (without serialization such a state is reached: C7_Witness).
C7_SerializedKeepsBudget ==
    serialized =>
      /\ InEngine => /\ trade_stats.used_capital <= daily_budget
                     /\ trade_stats.trades <= max_trades
      /\ InMain => /\ trade_stats.used_capital <= DAILY_BUDGET
                   /\ trade_stats.trades <= MAX_TRADES_PER_DAY

\* C7 witness: two unserialized attempt_trade calls both passed the gates
\* before either updated the counters, and the limits are exceeded.
C7_Witness ==
    /\ ~serialized /\ InEngine
    /\ trade_stats.trades > max_trades
    /\ trade_stats.used_capital > daily_budget

\* C8 (as claimed): after an attempt_trade at a positive price the journal
\* holds one record per accepted order, whatever the account query after the
\* submission returned.  _log_pnl asks for the account and writes the record
\* inside one try block, so an account query that raises leaves the accepted
\* trade without a record.
C8_EveryAcceptedTradeJournaled ==
    (request.op = "attempt_trade" /\ request.price > 0) => Len(journal) = submitted

\* C9: the journal only grows by appending, one record per call, and only in a
\* call whose order was accepted; rejected, simulated and refused attempts
\* leave it as it was.
C9_JournalAppendOnly ==
    [][/\ IsPrefix(journal, journal')
       /\ journal' # journal =>
            /\ Len(journal') = Len(journal) + 1
            /\ submitted' = submitted + 1
            /\ outcome'.status = "order placed"
       /\ (outcome'.status \in {"error", "simulated", "raised"} /\ (AttemptTrade \/ TradeSignal))
            => journal' = journal]_vars

\* C9 witness: a second accepted trade appended its record behind the first.
C9_Witness ==
    /\ InEngine
    /\ Len(journal) = 2
    /\ journal[1].stats.trades = 1 /\ journal[2].stats.trades = 2
    /\ outcome.status = "order placed"

\* C10: a fetch_fundamentals or get_price_history call (and main's
\* safe_download through get_cached) that finds an entry for the symbol
\* younger than the TTL returns that entry, makes no provider call, does not
\* sleep and changes nothing, whether or not the rate-limit cooldown is active.
C10_FreshHitShortCircuits ==
    [][\A s \in DataSymbols :
        /\ (/\ s \in DOMAIN _FUNDAMENTAL_CACHE
            /\ now - _FUNDAMENTAL_CACHE[s].timestamp < _CACHE_TTL_SECONDS
            /\ FetchFundamentalsCall(s))
             => /\ result' = RetData(_FUNDAMENTAL_CACHE[s].data)
                /\ calls' = <<>>
                /\ UNCHANGED dataVarsButResult
        /\ (/\ s \in DOMAIN _HISTORY_CACHE
            /\ now - _HISTORY_CACHE[s].timestamp < _CACHE_TTL_SECONDS
            /\ GetPriceHistoryCall(s))
             => /\ result' = RetData(_HISTORY_CACHE[s].data)
                /\ calls' = <<>>
                /\ UNCHANGED dataVarsButResult
        /\ (/\ s \in DOMAIN cache
            /\ now - cache[s].timestamp < CACHE_TTL
            /\ SafeDownloadCall(s))
             => /\ result' = RetData(cache[s].data)
                /\ calls' = <<>>
                /\ UNCHANGED dataVarsButResult]_vars

\* C10 witness: get_price_history answered from a fresh entry, with no call
\* and no sleep, while the cooldown was running.
C10_Witness ==
    /\ request.op = "get_price_history"
    /\ request.symbol \in DOMAIN _HISTORY_CACHE
    /\ now - _HISTORY_CACHE[request.symbol].timestamp < _CACHE_TTL_SECONDS
    /\ now < _rate_limited_until
    /\ result = RetData(_HISTORY_CACHE[request.symbol].data)
    /\ calls = <<>>

\* C11 (as claimed): a fetch_fundamentals call made less than the TTL after a
\* fetch_fundamentals call for the same symbol that returned a quote returns
\* the same quote.  The TTL runs from the time the entry was stored, not from
\* the last call: a first call answered from an entry that is about to expire
\* is followed by a second call that asks the providers again.
C11_CallsWithinTTLAgree ==
    [][\A s \in DataSymbols :
        (/\ request.op = "fetch_fundamentals" /\ request.symbol = s
         /\ result.kind = "data"
         /\ now - request.at < _CACHE_TTL_SECONDS
         /\ FetchFundamentalsCall(s))
          => result' = result]_vars

\* C11 (amended): a fetch_fundamentals call made less than the TTL after a
\* fetch_fundamentals call for the same symbol that obtained a quote from a
\* provider (and stored it) returns the same quote, whatever the providers
\* would answer.
C11_CallsWithinTTLOfFetchAgree ==
    [][\A s \in DataSymbols :
        (/\ request.op = "fetch_fundamentals" /\ request.symbol = s
         /\ result.kind = "data" /\ calls # <<>>
         /\ now - request.at < _CACHE_TTL_SECONDS
         /\ FetchFundamentalsCall(s))
          => (result' = result /\ calls' = <<>>)]_vars

\* C11 witness: a call answered with the stored quote, minutes after the
\* quote was fetched.
C11_Witness ==
    /\ request.op = "fetch_fundamentals"
    /\ result.kind = "data" /\ calls = <<>>
    /\ request.symbol \in DOMAIN _FUNDAMENTAL_CACHE
    /\ result.data = _FUNDAMENTAL_CACHE[request.symbol].data
    /\ request.at > _FUNDAMENTAL_CACHE[request.symbol].timestamp

\* C12 (as claimed): a fetch_fundamentals call that finds an entry older than
\* the TTL and gets no quote from any provider (nothing is stored, nothing is
\* raised) returns the stale entry.  fetch_fundamentals ends with
\* `return None` whether or not an entry exists.
C12_StaleEntryIsLastResort ==
    [][\A s \in DataSymbols :
        (/\ s \in DOMAIN _FUNDAMENTAL_CACHE
         /\ now - _FUNDAMENTAL_CACHE[s].timestamp >= _CACHE_TTL_SECONDS
         /\ FetchFundamentalsCall(s)
         /\ _FUNDAMENTAL_CACHE' = _FUNDAMENTAL_CACHE
         /\ result'.kind # "raised")
          => result' = RetData(_FUNDAMENTAL_CACHE[s].data)]_vars

\* C13: fetch_fundamentals and get_price_history send no request to the
\* primary provider at a moment when _rate_limited_until is in the future; and
\* a fetch_fundamentals call made during the cooldown (with no fresh entry)
\* goes on to the fallback providers, Finviz first, without asking Yahoo.
C13_CooldownSkipsPrimaryOnly ==
    [][/\ (request'.op \in {"fetch_fundamentals", "get_price_history"})
            => Range(calls') \cap {"yf.Ticker during cooldown",
                                   "yf.download during cooldown"} = {}
       /\ \A s \in DataSymbols :
            (/\ now < _rate_limited_until
             /\ ~(s \in DOMAIN _FUNDAMENTAL_CACHE
                  /\ now - _FUNDAMENTAL_CACHE[s].timestamp < _CACHE_TTL_SECONDS)
             /\ FetchFundamentalsCall(s))
              => /\ "yf.Ticker" \notin Range(calls')
                 /\ "finviz" \in Range(calls')]_vars

\* C13 witness: a fetch_fundamentals call made during the cooldown returned
\* the quote of a fallback provider.
C13_Witness ==
    /\ request.op = "fetch_fundamentals"
    /\ request.at < _rate_limited_until /\ now = request.at
    /\ "finviz" \in Range(calls) /\ "yf.Ticker" \notin Range(calls)
    /\ result.kind = "data" /\ result.data.source \in {"finviz", "stockdata", "yahoo_quote"}

\* C14 (as claimed): consecutive 429 answers of the history provider double
\* the cooldown.  In a get_price_history call that starts outside a cooldown
\* and whose first two downloads are answered 429 (each followed by the
\* cool-off sleep of the next attempt), the second 429, received at
\* now + base, sets _rate_limited_until to at least now + base + 2 x base.
\* _download_yfinance calls _mark_rate_limited() with the default multiplier
\* 1 every time; the doubling branches of get_price_history cannot be reached.
C14_Consecutive429DoubleCooldown ==
    [][\A s \in DataSymbols :
        (/\ now >= _rate_limited_until
         /\ GetPriceHistoryCall(s)
         /\ Len(calls') >= 4
         /\ SubSeq(calls', 1, 4) = <<"yf.download", "sleep", "yf.download", "sleep">>)
          => _rate_limited_until' >= now + 3 * CHART_COOLDOWN_SECONDS]_vars

\* C15 (as claimed): fetch_fundamentals and get_price_history never raise;
\* they return a quote, a series or None.  _fetch_stockdata and
\* _fetch_yahoo_quote catch RequestException alone, so a payload whose price
\* float() rejects, or whose shape is wrong, raises through both functions.
C15_MarketDataNeverRaises ==
    (request.op \in {"fetch_fundamentals", "get_price_history"})
      => result.kind \in {"data", "None"}

\* C16 (as claimed): fetch_fundamentals never returns or caches a quote whose
\* price is <= 0.  The provider clients test the price for None only (Yahoo,
\* StockData, Yahoo quote) or for an empty text (Finviz), so an upstream price
\* of 0 comes back as a quote with price 0.0 and is cached.
C16_NoNonPositivePrice ==
    /\ (request.op = "fetch_fundamentals" /\ result.kind = "data") => result.data.price > 0
    /\ \A s \in DOMAIN _FUNDAMENTAL_CACHE : _FUNDAMENTAL_CACHE[s].data.price > 0

\* C17: when the brokerage reports max_positions open positions or more,
\* attempt_trade returns the max-positions rejection and submits no order.
C17_FullPositionsNeverSubmit ==
    (request.op = "attempt_trade" /\ "list_positions at limit" \in Range(calls))
      => /\ outcome = Rejected(ERR_POSITIONS)
         /\ "submit_order" \notin Range(calls)

\* C17 witness: the first trade of a day, within both budgets, was turned down
\* because the brokerage reported the position limit reached.
C17_Witness ==
    /\ InEngine /\ NoRolloverDue
    /\ request.op = "attempt_trade" /\ request.price > 0
    /\ calls = <<"list_positions at limit">>
    /\ outcome = Rejected(ERR_POSITIONS)
    /\ trade_stats.trades = 0 /\ submitted = 0

\* C18 (as claimed, here for the positive prices alone): the stats returned
\* with an attempt_trade outcome are a snapshot: a later attempt_trade does not change what they hold.  The
\* outcome refers to the engine's own dictionary; when that dictionary is
\* today's (the later call replaces none), the later call updates it in place
\* and the earlier outcome shows trade_stats as the later call left it.
C18_ReturnedStatsAreSnapshot ==
    [][(InEngine /\ outcome_stats.ref = today /\ request.price > 0
        /\ AttemptTrade /\ request'.price > 0)
         => trade_stats' = outcome_stats.held]_vars


\* the list is in descending order of the key
Descending(list, field) ==
    \A i, j \in DOMAIN list : i < j => list[i][field] >= list[j][field]

\* kept holds as many elements of all as the limit allows, and no element
\* left out has a higher key than one kept
KeepsHighest(all, kept, limit, field) ==
    /\ Range(kept) \subseteq Range(all)
    /\ Len(kept) = (IF limit < Len(all) THEN limit ELSE Len(all))
    /\ \A x \in Range(all) \ Range(kept), y \in Range(kept) : y[field] >= x[field]

C20_ScanStopsWhenCooldownStarts ==
    [][\A symbols \in ScanLists :
        (now >= _next_chart_allowed /\ AnalyzeTickersCall(symbols))
          => \A i \in DOMAIN calls' :
                (i > 1 /\ calls'[i] = "safe_download" /\ i + 2 <= Len(calls'))
                  => ~(calls'[i + 1] = "sleep" /\ calls'[i + 2] = "chart during cooldown")]_vars


\* C21: every result of a scan carries the action its RSI gives (below 40
\* "watch", above 55 "buy", otherwise "hold"), and the scan has called
\* attempt_trade once for each result whose action is "buy" and for no other
C21_ActionFollowsOscillator ==
    request.op = "analyze_tickers" =>
       /\ \A i \in DOMAIN result.data :
             /\ "action" \in DOMAIN result.data[i]
             /\ result.data[i]["action"] = (IF result.data[i].rsi < 40 THEN "watch"
                                           ELSE IF result.data[i].rsi > 55 THEN "buy"
                                           ELSE "hold")
       /\ Cardinality({i \in DOMAIN calls : calls[i] = "attempt_trade"})
            = Cardinality({i \in DOMAIN result.data : result.data[i].rsi > 55})


\* C22: a call of attempt_trade or trade_signal that finds a stored date other
\* than the current one is judged against the statistics of a fresh day: it
\* is not rejected for a halt, a trade count or a spent budget, and it leaves
\* the new date with the counters of at most its own order; a call that finds
\* the current date and places no order leaves the statistics as they were
C22_NewDayStartsFresh ==
    [][(AttemptTrade \/ TradeSignal) =>
          /\ trade_stats.date # today =>
                /\ trade_stats'.date = today
                /\ outcome'.error \notin {ERR_HALTED, ERR_COUNT, ERR_DAILY}
                /\ trade_stats'.trades = (IF outcome'.status = "order placed" THEN 1 ELSE 0)
                /\ trade_stats'.used_capital =
                      (IF outcome'.status = "order placed"
                       THEN outcome'.price * outcome'.qty ELSE 0)
          /\ (trade_stats.date = today /\ outcome'.status # "order placed") =>
                trade_stats' = trade_stats]_vars

\* the day before ended halted, and the first call of the new day has placed
\* an order
C22_Witness ==
    /\ today = 1
    /\ trade_stats.date = 1
    /\ trade_stats.trades = 1
    /\ outcome.status = "order placed"
    /\ Len(journal) = 2
    /\ journal[1].stats.date = 0
    /\ journal[1].stats.stopped


\* C23: while the stored date stays the same, a step in which the brokerage
\* accepts an order raises trades by one and used_capital by the price times
\* the quantity of that order, and every other step leaves both as they were
C23_CountersMoveOnlyOnSubmission ==
    [][trade_stats'.date = trade_stats.date =>
          IF submitted' = submitted + 1
          THEN /\ trade_stats'.trades = trade_stats.trades + 1
               /\ trade_stats'.used_capital =
                     trade_stats.used_capital + outcome'.price * outcome'.qty
          ELSE /\ trade_stats'.trades = trade_stats.trades
               /\ trade_stats'.used_capital = trade_stats.used_capital]_vars

\* the second order of a day has been accepted, for several shares
C23_Witness ==
    /\ outcome.status = "order placed"
    /\ outcome.qty > 1
    /\ outcome.price > 0
    /\ trade_stats.trades = 2
    /\ submitted = 2
    /\ trade_stats.used_capital > outcome.price * outcome.qty


\* C24: an accepted order is for at least one share, its notional does not
\* exceed per_trade_budget, and its quantity is the largest that keeps the
\* notional within per_trade_budget (one share when the price is negative)
C24_OrderSizedToPerTradeBudget ==
    outcome.status = "order placed" =>
       /\ outcome.qty >= 1
       /\ outcome.price * outcome.qty <= per_trade_budget
       /\ IF outcome.price > 0
          THEN outcome.price * (outcome.qty + 1) > per_trade_budget
          ELSE outcome.qty = 1

\* an order whose notional is exactly per_trade_budget has been accepted
C24_Witness ==
    /\ request.op = "attempt_trade"
    /\ outcome.status = "order placed"
    /\ outcome.qty = 2
    /\ outcome.price * outcome.qty = per_trade_budget


\* C25: a fetch_fundamentals call that is no cache hit asks the providers in
\* the order Yahoo, Finviz, StockData, Yahoo-quote without skipping one
\* (Yahoo itself is left out during a cooldown), each but Yahoo at most once;
\* when it returns a quote, the quote comes from the provider asked last and
\* is what the cache holds for the symbol, stamped with the time of the call
C25_FirstProviderInOrderWins ==
    (request.op = "fetch_fundamentals" /\ calls # <<>>) =>
       LET Rank(c) == CASE c \in {"yf.Ticker", "yf.Ticker during cooldown", "yahoo"} -> 1
                        [] c = "finviz" -> 2
                        [] c = "stockdata" -> 3
                        [] c = "yahoo_quote" -> 4
                        [] OTHER -> 0
           asked == {i \in DOMAIN calls : Rank(calls[i]) > 0}
       IN  /\ \A i, j \in asked :
                i < j => /\ Rank(calls[i]) <= Rank(calls[j])
                         /\ Rank(calls[i]) = Rank(calls[j]) => Rank(calls[i]) = 1
           /\ \A j \in asked :
                 Rank(calls[j]) > 2 => \E i \in asked : Rank(calls[i]) = Rank(calls[j]) - 1
           /\ result.kind = "data" =>
                 /\ \A i \in asked : Rank(calls[i]) <= Rank(result.data.source)
                 /\ \E i \in asked : Rank(calls[i]) = Rank(result.data.source)
                 /\ request.symbol \in DOMAIN _FUNDAMENTAL_CACHE
                 /\ _FUNDAMENTAL_CACHE[request.symbol] = Entry(result.data, request.at)

\* Yahoo and Finviz gave nothing, StockData gave the quote that was returned
\* and cached, and Yahoo-quote was not asked
C25_Witness ==
    /\ request.op = "fetch_fundamentals"
    /\ result.kind = "data"
    /\ result.data.source = "stockdata"
    /\ "yf.Ticker" \in Range(calls)
    /\ "finviz" \in Range(calls)
    /\ "yahoo_quote" \notin Range(calls)
    /\ _FUNDAMENTAL_CACHE[request.symbol].data = result.data


\* C26: safe_download sends no chart request while a cooldown set by a 429 or
\* by exhausted retries is running
C26_NoChartRequestDuringCooldown ==
    request.op = "safe_download" => "chart during cooldown" \notin Range(calls)


\* C27: a call that sets the cooldown of data_sources leaves it ending at
\* least one base window after the call began and at most 8 base windows
\* after the call ended; a call of main that moves _next_chart_allowed leaves
\* it one throttle interval ahead (a served request) or between one and 8 base
\* windows ahead (a cooldown)
C27_CooldownWithinOneToEightWindows ==
    [][/\ _rate_limited_until' # _rate_limited_until =>
             /\ _rate_limited_until' - now >= CHART_COOLDOWN_SECONDS
             /\ _rate_limited_until' - now' <= 8 * CHART_COOLDOWN_SECONDS
       /\ _next_chart_allowed' # _next_chart_allowed =>
             \/ _next_chart_allowed' - now' = MAIN_CHART_THROTTLE_SECONDS
             \/ /\ _next_chart_allowed' - now' >= MAIN_CHART_COOLDOWN_SECONDS
                /\ _next_chart_allowed' - now' <= 8 * MAIN_CHART_COOLDOWN_SECONDS]_vars

\* a get_price_history call that began in a cooldown, waited it out, asked
\* again and has set a new cooldown of one base window
C27_Witness ==
    /\ request.op = "get_price_history"
    /\ request.at > 0
    /\ Len(calls) >= 2
    /\ calls[1] = "sleep"
    /\ calls[2] = "yf.download"
    /\ _rate_limited_until = now + CHART_COOLDOWN_SECONDS


\* C28: no step removes a symbol from a cache; a step that changes a cache is
\* a fetch for one symbol that obtained data, it changes the entry of that
\* symbol only and the entry holds the data obtained (for the fundamentals
\* cache written inside get_price_history: the quote its series was built from)
C28_CachesOnlyGrow ==
    [][/\ DOMAIN _FUNDAMENTAL_CACHE \subseteq DOMAIN _FUNDAMENTAL_CACHE'
       /\ DOMAIN _HISTORY_CACHE \subseteq DOMAIN _HISTORY_CACHE'
       /\ DOMAIN cache \subseteq DOMAIN cache'
       /\ _FUNDAMENTAL_CACHE' # _FUNDAMENTAL_CACHE =>
             /\ request'.op \in {"fetch_fundamentals", "get_price_history"}
             /\ \A k \in DOMAIN _FUNDAMENTAL_CACHE \ {request'.symbol} :
                   _FUNDAMENTAL_CACHE'[k] = _FUNDAMENTAL_CACHE[k]
             /\ DOMAIN _FUNDAMENTAL_CACHE' = DOMAIN _FUNDAMENTAL_CACHE \cup {request'.symbol}
             /\ _FUNDAMENTAL_CACHE'[request'.symbol].data # NoData
             /\ request'.op = "fetch_fundamentals" =>
                   /\ result'.kind = "data"
                   /\ _FUNDAMENTAL_CACHE'[request'.symbol].data = result'.data
             /\ (request'.op = "get_price_history" /\ result'.kind = "data") =>
                   _FUNDAMENTAL_CACHE'[request'.symbol].data.price = result'.data.price
       /\ _HISTORY_CACHE' # _HISTORY_CACHE =>
             /\ request'.op = "get_price_history"
             /\ result'.kind = "data"
             /\ DOMAIN _HISTORY_CACHE' = DOMAIN _HISTORY_CACHE \cup {request'.symbol}
             /\ \A k \in DOMAIN _HISTORY_CACHE \ {request'.symbol} :
                   _HISTORY_CACHE'[k] = _HISTORY_CACHE[k]
             /\ _HISTORY_CACHE'[request'.symbol].data = result'.data
       /\ cache' # cache =>
             /\ request'.op = "safe_download"
             /\ result'.kind = "data"
             /\ DOMAIN cache' = DOMAIN cache \cup {request'.symbol}
             /\ \A k \in DOMAIN cache \ {request'.symbol} : cache'[k] = cache[k]
             /\ cache'[request'.symbol].data = result'.data]_vars

\* an expired fundamentals entry has been overwritten by a later fetch
C28_Witness ==
    /\ request.op = "fetch_fundamentals"
    /\ request.at = _CACHE_TTL_SECONDS
    /\ calls # <<>>
    /\ result.kind = "data"
    /\ _FUNDAMENTAL_CACHE[request.symbol].timestamp = request.at
    /\ request.symbol \in DOMAIN _HISTORY_CACHE
    /\ _HISTORY_CACHE[request.symbol].data.source = "synthetic"
    /\ _HISTORY_CACHE[request.symbol].timestamp = 0


\* C29: every record scan_finviz_insider_stocks returns has a known price of
\* at most 10 and a known volume of at least 300,000
C29_ReturnedCandidatesWithinBand ==
    request.op = "scan_finviz_insider_stocks" =>
       \A i \in DOMAIN result.data :
          /\ result.data[i].price.known
          /\ result.data[i].price.value <= 10
          /\ result.data[i].avg_volume.known
          /\ result.data[i].avg_volume.value >= 300000


\* C30: analyze_tickers returns a list whatever the providers answer; it has
\* turned to every symbol of its list; a symbol is in the result only if a
\* frame was obtained for it, and always if the frame came from the chart
\* endpoint, whose rows all have a Close
C30_ScanSkipsMissingData ==
    request.op = "analyze_tickers" =>
       LET symbols == CHOOSE l \in ScanLists : l[1] = request.symbol
           returned == {result.data[i].symbol : i \in DOMAIN result.data}
       IN  /\ result.kind = "list"
           /\ Cardinality({i \in DOMAIN calls : calls[i] = "safe_download"}) = Len(symbols)
           /\ Cardinality(returned) = Len(result.data)
           /\ returned \subseteq Range(symbols) \cap DOMAIN cache
           /\ \A sym \in Range(symbols) \cap DOMAIN cache :
                 cache[sym].data.source = "chart" => sym \in returned

\* no frame could be had for the first symbol, and the second is returned
C30_Witness ==
    /\ request.op = "analyze_tickers"
    /\ "AAA" \notin DOMAIN cache
    /\ Len(result.data) = 1
    /\ result.data[1].symbol = "BBB"


\* C31: an accepted attempt_trade has made exactly one submit_order call: a
\* buy, limit at the given price, good until cancelled, with a take-profit
\* leg at the cent nearest to price x (1 + take_profit_percent) and a
\* stop-loss leg at the cent nearest to price x (1 - stop_loss_percent)
C31_AcceptedTradeSubmitsOneBracketOrder ==
    (program = "trade_engine" /\ request.op = "attempt_trade"
       /\ outcome.status = "order placed") =>
       /\ Cardinality({i \in DOMAIN calls : calls[i] = "submit_order"}) = 1
       /\ Len(loc) = 1
       /\ LET order == loc[1]
              tp == order.take_profit.limit_price
              sl == order.stop_loss.stop_price
          IN  /\ order.symbol = request.symbol
              /\ order.side = "buy"
              /\ order.type = "limit"
              /\ order.limit_price = request.price
              /\ order.time_in_force = "gtc"
              /\ 10 * tp - request.price * (1000 + engine.take_profit_percent) \in -5..5
              /\ 10 * sl - request.price * (1000 - engine.stop_loss_percent) \in -5..5

\* an accepted trade whose take-profit and stop-loss are not whole cents
\* before rounding: 3 x 1.033 = 3.099 and 3 x 0.983 = 2.949
C31_Witness ==
    /\ program = "trade_engine"
    /\ request.op = "attempt_trade"
    /\ outcome.status = "order placed"
    /\ request.price = 3
    /\ engine.take_profit_percent = 33
    /\ loc = <<Order("XYZ", 3)>>
    /\ loc[1].take_profit.limit_price = 310
    /\ loc[1].stop_loss.stop_price = 295


\* C32: attempt_trade looks at its gates in the order credentials, per-trade
\* budget, halted, trade count, daily budget, open positions, and returns the
\* reason of the first that fails, having made no brokerage call when that is
\* one of the first five; api.list_positions() is its first brokerage call and
\* is made exactly when the first five pass.  (At price 0 the quantity of the
\* per-trade gate cannot be computed: the call raises there, and no later gate
\* is looked at.)
PositionQueries == {"list_positions", "list_positions at limit", "list_positions raised"}

C32_GatesInFixedOrder ==
    [][\A symbol \in Symbols, price \in Prices :
         AttemptTradeCall(symbol, price) =>
            LET stats == IF trade_stats.date # today THEN FreshStats(today) ELSE trade_stats
                value == price * Qty(price)
                first == IF ~api THEN "credentials"
                         ELSE IF price = 0 THEN "raises"
                         ELSE IF value > per_trade_budget THEN ERR_PER_TRADE
                         ELSE IF stats.stopped THEN ERR_HALTED
                         ELSE IF stats.trades >= max_trades THEN ERR_COUNT
                         ELSE IF stats.used_capital + value > daily_budget THEN ERR_DAILY
                         ELSE ""
            IN  /\ first = "credentials" => (outcome' = Simulated /\ calls' = <<>>)
                /\ first = "raises" => (outcome'.status = "raised" /\ calls' = <<>>)
                /\ first \in {ERR_PER_TRADE, ERR_HALTED, ERR_COUNT, ERR_DAILY} =>
                      (outcome' = Rejected(first) /\ calls' = <<>>)
                /\ first = "" =>
                      /\ calls' # <<>>
                      /\ calls'[1] \in PositionQueries
                      /\ \A i \in 2..Len(calls') : calls'[i] \notin PositionQueries
                      /\ calls'[1] = "list_positions at limit"
                            <=> outcome' = Rejected(ERR_POSITIONS)]_vars

\* a halted engine that has also used up its trade count and its daily budget
\* has answered a price within the per-trade budget with the halted reason
C32_Witness ==
    /\ program = "trade_engine"
    /\ request.op = "attempt_trade"
    /\ trade_stats.date = today
    /\ trade_stats.stopped
    /\ trade_stats.trades >= max_trades
    /\ request.price > 0
    /\ trade_stats.used_capital + request.price * Qty(request.price) > daily_budget
    /\ request.price * Qty(request.price) <= per_trade_budget
    /\ outcome = Rejected(ERR_HALTED)
    /\ calls = <<>>


\* C33: when api.list_positions() raises, attempt_trade is not rejected for
\* it: the call goes on to api.submit_order, so an order can be accepted
\* without the position limit having been checked
C33_PositionGateFailsOpen ==
    (program = "trade_engine" /\ request.op = "attempt_trade"
       /\ "list_positions raised" \in Range(calls)) =>
       /\ Len(calls) >= 2
       /\ calls[1] = "list_positions raised"
       /\ calls[2] = "submit_order"
       /\ outcome.error # ERR_POSITIONS
       /\ Len(loc) = 1

\* an order was accepted after the open-position query had raised
C33_Witness ==
    /\ program = "trade_engine"
    /\ request.op = "attempt_trade"
    /\ calls = <<"list_positions raised", "submit_order", "get_account">>
    /\ outcome.status = "order placed"
    /\ submitted = 1


\* C34: used_capital never decreases while the stored date stays the same,
\* and an attempt_trade call at a price of 0 or less returns a rejection
\* (it does not raise), submits no order and leaves used_capital as it was
C34_NonPositivePriceRejected ==
    [][/\ trade_stats'.date = trade_stats.date =>
             trade_stats'.used_capital >= trade_stats.used_capital
       /\ (AttemptTrade /\ request'.price <= 0) =>
             /\ outcome'.status \in {"error", "simulated"}
             /\ "submit_order" \notin Range(calls')
             /\ trade_stats'.date = trade_stats.date =>
                   trade_stats'.used_capital = trade_stats.used_capital]_vars


\* C35: in an engine without a brokerage client every attempt_trade call
\* returns status "simulated" and makes no brokerage call, whatever the symbol
\* and price; no step appends to the journal or has an order accepted, and
\* TradeStats changes only by the roll-over reset of a day that has passed
C35_NoCredentialsOnlySimulates ==
    [][(program = "trade_engine" /\ ~api) =>
          /\ AttemptTrade => (outcome'.status = "simulated" /\ calls' = <<>>)
          /\ journal' = journal
          /\ submitted' = submitted
          /\ \/ trade_stats' = trade_stats
             \/ /\ trade_stats.date # today
                /\ trade_stats' = FreshStats(today)]_vars

\* without a client, a call at price 0 on the day after the stored date has
\* returned "simulated" and left the statistics of the new day
C35_Witness ==
    /\ program = "trade_engine"
    /\ ~api
    /\ request.op = "attempt_trade"
    /\ request.price = 0
    /\ outcome.status = "simulated"
    /\ today = 1
    /\ trade_stats = FreshStats(1)
    /\ journal = <<>>


\* C36: a step that writes an entry of _HISTORY_CACHE stamps it with the time
\* of the write, which is the time at which the writing call returns
C36_HistoryEntryStampedAtWrite ==
    [][\A symbol \in DOMAIN _HISTORY_CACHE' :
          (symbol \notin DOMAIN _HISTORY_CACHE
             \/ _HISTORY_CACHE'[symbol] # _HISTORY_CACHE[symbol])
          => _HISTORY_CACHE'[symbol].timestamp = now']_vars


\* C37: a get_price_history call that ends with the single-point series built
\* from fundamentals returns it and stores it in _HISTORY_CACHE as an entry
\* that is fresh when the call returns, so that a call made then is answered
\* from the cache; a call that returns None leaves _HISTORY_CACHE as it was
C37_SyntheticSeriesCachedForLaterCalls ==
    [][/\ \A symbol \in DOMAIN _HISTORY_CACHE' :
             ((symbol \notin DOMAIN _HISTORY_CACHE
                 \/ _HISTORY_CACHE'[symbol] # _HISTORY_CACHE[symbol])
              /\ _HISTORY_CACHE'[symbol].data.source = "synthetic")
             => /\ result' = RetData(_HISTORY_CACHE'[symbol].data)
                /\ now' - _HISTORY_CACHE'[symbol].timestamp < _CACHE_TTL_SECONDS
       /\ (request'.op = "get_price_history" /\ result'.kind = "None")
             => _HISTORY_CACHE' = _HISTORY_CACHE]_vars


\* C38: after a cycle of auto_trade no symbol has more than one order
\* accepted in the cycle, an open position counting as one
C38_OneOrderPerSymbolPerCycle ==
    request.op = "auto_trade" =>
       \A symbol \in {"AAA", "BBB"} :
          Cardinality({i \in DOMAIN calls : calls[i] = "submit_order " \o symbol})
            + (IF symbol \in loc[1].held THEN 1 ELSE 0) <= 1


\* C39: a get_price_history call has asked yf.download at most 3 times and has
\* returned a series or None; a safe_download call has asked the chart endpoint
\* at most 3 times and has returned a frame or an empty frame
C39_AtMostThreeAttemptsThenReturns ==
    /\ request.op = "get_price_history" =>
          /\ Cardinality({i \in DOMAIN calls :
                            calls[i] \in {"yf.download", "yf.download during cooldown"}}) <= 3
          /\ result.kind \in {"data", "None"}
    /\ request.op = "safe_download" =>
          /\ Cardinality({i \in DOMAIN calls :
                            calls[i] \in {"chart", "chart during cooldown"}}) <= 3
          /\ result.kind \in {"data", "empty"}

====
